---- MODULE Spec2Model ----
(***************************************************************************)
(* CBitstreamConverter (xbmc/utils/BitstreamConverter.cpp): the per-stream *)
(* state of the AVCC/HVCC to Annex-B converter and its operations Open,    *)
(* Close, Convert (single-track and dual-track), ResetStartDecode and the  *)
(* flag setters.  Buffers are sequences of bytes (0..255); a packet is the *)
(* sequence of its NAL units, each a sequence of bytes.                    *)
(***************************************************************************)
EXTENDS Integers, Sequences, FiniteSets, TLC

(* ---------------------------------------------------------------------- *)
(* NAL unit types and SEI payload types                                   *)
(* ---------------------------------------------------------------------- *)
AVC_NAL_SLICE == 1
AVC_NAL_IDR_SLICE == 5
AVC_NAL_SEI == 6
AVC_NAL_SPS == 7
AVC_NAL_PPS == 8
AVC_NAL_END_SEQUENCE == 10

HEVC_NAL_TRAIL_N == 0
HEVC_NAL_TRAIL_R == 1
HEVC_NAL_TSA_N == 2
HEVC_NAL_TSA_R == 3
HEVC_NAL_STSA_N == 4
HEVC_NAL_STSA_R == 5
HEVC_NAL_RADL_N == 6
HEVC_NAL_RADL_R == 7
HEVC_NAL_RASL_N == 8
HEVC_NAL_RASL_R == 9
HEVC_NAL_BLA_W_LP == 16
HEVC_NAL_BLA_W_RADL == 17
HEVC_NAL_BLA_N_LP == 18
HEVC_NAL_IDR_W_RADL == 19
HEVC_NAL_IDR_N_LP == 20
HEVC_NAL_CRA_NUT == 21
HEVC_NAL_VPS == 32
HEVC_NAL_SPS == 33
HEVC_NAL_PPS == 34
HEVC_NAL_EOS_NUT == 36
HEVC_NAL_SEI_PREFIX == 39
HEVC_NAL_UNSPEC62 == 62
HEVC_NAL_UNSPEC63 == 63

SEI_RECOVERY_POINT == 6

AV_CODEC_ID_H264 == "H264"
AV_CODEC_ID_HEVC == "HEVC"
AV_CODEC_ID_OTHER == "MPEG2"

MODE_NONE == "MODE_NONE"
MODE_TOMEL == "MODE_TOMEL"
MODE_TO81 == "MODE_TO81"
DOVIMode == {MODE_NONE, MODE_TOMEL, MODE_TO81}

HDR_TYPE_NONE == "HDR_TYPE_NONE"
HDR_TYPE_HDR10 == "HDR_TYPE_HDR10"
HDR_TYPE_HDR10PLUS == "HDR_TYPE_HDR10PLUS"
HDR_TYPE_DOLBYVISION == "HDR_TYPE_DOLBYVISION"

(* ---------------------------------------------------------------------- *)
(* Byte helpers.  Buffers are indexed from 0, as in the C code.            *)
(* ---------------------------------------------------------------------- *)
At(buf, i) == buf[i + 1]

InBuf(buf, i) == i >= 0 /\ i < Len(buf)

Slice(buf, from, n) == [k \in 1..n |-> buf[from + k]]

RB16(buf, i) == At(buf, i) * 256 + At(buf, i + 1)

WB16(n) == <<(n \div 256) % 256, n % 256>>

nalu_header == <<0, 0, 0, 1>>

(* ---------------------------------------------------------------------- *)
(* Extradata reshaper: AVCC -> Annex-B prologue                            *)
(* ---------------------------------------------------------------------- *)
(* The walk of BitstreamConvertInitAVC over the record.  s is the loop     *)
(* state: pos (offset of `extradata` in the record), unit_nb, sps_done,    *)
(* mvc_done, out (the prologue so far; total_size is its length).  The     *)
(* result is [ok, out, oob]; oob records that a byte at or past           *)
(* in_extrasize was read.                                                  *)
RECURSIVE AVCInitLoop(_, _)
RECURSIVE AVCInitPps(_, _)

(* a variant of the copy of one unit that writes the 3-byte start code in  *)
(* front of it                                                             *)
AVCInitUnitShortCode(ed, s) ==
  IF ~InBuf(ed, s.pos + 1)
  THEN [ok |-> FALSE, out |-> <<>>, oob |-> TRUE]
  ELSE LET unit_size == RB16(ed, s.pos)
       IN IF s.pos + 2 + unit_size > Len(ed)
          THEN [ok |-> FALSE, out |-> <<>>, oob |-> s.oob]
          ELSE AVCInitPps(ed, [s EXCEPT
                 !.out = s.out \o <<0, 0, 1>> \o Slice(ed, s.pos + 2, unit_size),
                 !.pos = s.pos + 2 + unit_size])

AVCInitUnit(ed, s) ==
  IF ~InBuf(ed, s.pos + 1)
  THEN [ok |-> FALSE, out |-> <<>>, oob |-> TRUE]
  ELSE LET unit_size == RB16(ed, s.pos)
       IN IF s.pos + 2 + unit_size > Len(ed)
          THEN [ok |-> FALSE, out |-> <<>>, oob |-> s.oob]
          ELSE AVCInitPps(ed, [s EXCEPT
                 !.out = s.out \o nalu_header \o Slice(ed, s.pos + 2, unit_size),
                 !.pos = s.pos + 2 + unit_size])

(* a variant of the step behind a unit that drops the prologue built so    *)
(* far when it finds the mvcC atom                                         *)
AVCInitPpsSupersedes(ed, s) ==
  LET readPps == s.unit_nb = 0 /\ s.sps_done = 0
      s1 == IF s.unit_nb # 0 \/ ~readPps \/ ~InBuf(ed, s.pos) THEN s
            ELSE [s EXCEPT !.sps_done = 1, !.unit_nb = At(ed, s.pos), !.pos = s.pos + 1]
      isMvc == /\ s1.unit_nb = 0 /\ s1.mvc_done = 0
               /\ InBuf(ed, s1.pos + 17)
               /\ Slice(ed, s1.pos + 8, 4) = <<109, 118, 99, 67>>
      s2 == IF s1.unit_nb # 0 THEN s1
            ELSE IF ~isMvc THEN [s1 EXCEPT !.mvc_done = s1.mvc_done + 1,
                                           !.sps_done = s1.sps_done + 1]
            ELSE [s1 EXCEPT !.mvc_done = s1.mvc_done + 1,
                            !.unit_nb = At(ed, s1.pos + 17) % 32,
                            !.pos = s1.pos + 18,
                            !.sps_done = 0,
                            !.out = <<>>]
  IN AVCInitLoop(ed, s2)

AVCInitPps(ed, s) ==
  LET readPps == s.unit_nb = 0 /\ s.sps_done = 0
      oob1 == readPps /\ ~InBuf(ed, s.pos)
      s1 == IF s.unit_nb # 0 THEN s
            ELSE IF ~readPps THEN [s EXCEPT !.sps_done = s.sps_done + 1]
            ELSE [s EXCEPT !.sps_done = s.sps_done + 1,
                           !.unit_nb = IF oob1 THEN 0 ELSE At(ed, s.pos),
                           !.pos = s.pos + 1,
                           !.oob = s.oob \/ oob1]
      probeMvc == s1.unit_nb = 0 /\ s1.mvc_done = 0
      total_size == Len(s1.out)
      \* in_extrasize - total_size is unsigned: it wraps when total_size is larger
      roomy == Len(ed) < total_size \/ Len(ed) - total_size > 14
      oob2 == probeMvc /\ roomy /\ ~InBuf(ed, s1.pos + 11)
      isMvc == probeMvc /\ roomy /\ ~oob2
               /\ Slice(ed, s1.pos + 8, 4) = <<109, 118, 99, 67>>
      oob3 == isMvc /\ ~InBuf(ed, s1.pos + 17)
      s2 == IF s1.unit_nb # 0 THEN s1
            ELSE IF ~probeMvc THEN [s1 EXCEPT !.mvc_done = s1.mvc_done + 1]
            ELSE IF ~isMvc THEN [s1 EXCEPT !.mvc_done = s1.mvc_done + 1,
                                           !.oob = s1.oob \/ oob2]
            ELSE [s1 EXCEPT !.mvc_done = s1.mvc_done + 1,
                            !.unit_nb = IF oob3 THEN 0 ELSE At(ed, s1.pos + 17) % 32,
                            !.pos = s1.pos + 18,
                            !.sps_done = 0,
                            !.oob = s1.oob \/ oob3]
  IN AVCInitLoop(ed, s2)

AVCInitLoop(ed, s) ==
  IF s.unit_nb = 0
  THEN [ok |-> TRUE, out |-> s.out, oob |-> s.oob]
  ELSE AVCInitUnit(ed, [s EXCEPT !.unit_nb = s.unit_nb - 1])

(* BitstreamConvertInitAVC: [ok, length_size, out, oob] *)
BitstreamConvertInitAVC(ed) ==
  IF Len(ed) < 6
  THEN [ok |-> FALSE, length_size |-> 0, out |-> <<>>, oob |-> FALSE]
  ELSE LET unit_nb == At(ed, 5) % 32
           s0 == [pos |-> 6, unit_nb |-> unit_nb, sps_done |-> 0, mvc_done |-> 0,
                  out |-> <<>>, oob |-> FALSE]
           r == IF unit_nb = 0 THEN AVCInitPps(ed, s0) ELSE AVCInitLoop(ed, s0)
       IN [ok |-> r.ok, length_size |-> (At(ed, 4) % 4) + 1, out |-> r.out,
           oob |-> r.oob]

(* ---------------------------------------------------------------------- *)
(* Extradata reshaper: HVCC -> Annex-B prologue                            *)
(* ---------------------------------------------------------------------- *)
RECURSIVE HEVCInitArrays(_, _)
RECURSIVE HEVCInitUnits(_, _)

(* a variant of the loop over the units of an array that copies the units  *)
(* of every array type                                                     *)
HEVCInitUnitsAll(ed, s) ==
  IF s.unit_nb = 0
  THEN HEVCInitArrays(ed, s)
  ELSE IF ~InBuf(ed, s.pos + 1)
  THEN [ok |-> FALSE, out |-> <<>>, oob |-> TRUE]
  ELSE LET unit_size == RB16(ed, s.pos)
           s1 == [s EXCEPT !.unit_nb = s.unit_nb - 1, !.pos = s.pos + 2]
       IN IF s1.pos + unit_size > Len(ed)
          THEN [ok |-> FALSE, out |-> <<>>, oob |-> s.oob]
          ELSE HEVCInitUnits(ed, [s1 EXCEPT
                 !.out = s.out \o nalu_header \o Slice(ed, s1.pos, unit_size),
                 !.pos = s1.pos + unit_size])

HEVCInitUnits(ed, s) ==
  IF s.unit_nb = 0
  THEN HEVCInitArrays(ed, s)
  ELSE IF ~InBuf(ed, s.pos + 1)
  THEN [ok |-> FALSE, out |-> <<>>, oob |-> TRUE]
  ELSE LET unit_size == RB16(ed, s.pos)
           s1 == [s EXCEPT !.unit_nb = s.unit_nb - 1, !.pos = s.pos + 2]
       IN IF s.nal_type \notin {HEVC_NAL_SPS, HEVC_NAL_PPS, HEVC_NAL_VPS}
          THEN HEVCInitUnits(ed, [s1 EXCEPT !.pos = s1.pos + unit_size])
          ELSE IF s1.pos + unit_size > Len(ed)
          THEN [ok |-> FALSE, out |-> <<>>, oob |-> s.oob]
          ELSE HEVCInitUnits(ed, [s1 EXCEPT
                 !.out = s.out \o nalu_header \o Slice(ed, s1.pos, unit_size),
                 !.pos = s1.pos + unit_size])

HEVCInitArrays(ed, s) ==
  IF s.array_nb = 0
  THEN [ok |-> TRUE, out |-> s.out, oob |-> s.oob]
  ELSE IF ~InBuf(ed, s.pos + 2)
  THEN [ok |-> FALSE, out |-> <<>>, oob |-> TRUE]
  ELSE HEVCInitUnits(ed, [s EXCEPT !.array_nb = s.array_nb - 1,
                                   !.nal_type = At(ed, s.pos) % 64,
                                   !.unit_nb = RB16(ed, s.pos + 1),
                                   !.pos = s.pos + 3])

(* BitstreamConvertInitHEVC: [ok, length_size, out, oob] *)
BitstreamConvertInitHEVC(ed) ==
  IF Len(ed) < 23
  THEN [ok |-> FALSE, length_size |-> 0, out |-> <<>>, oob |-> FALSE]
  ELSE LET s0 == [pos |-> 23, array_nb |-> At(ed, 22), nal_type |-> 0, unit_nb |-> 0,
                  out |-> <<>>, oob |-> FALSE]
           r == HEVCInitArrays(ed, s0)
       IN [ok |-> r.ok, length_size |-> (At(ed, 21) % 4) + 1, out |-> r.out,
           oob |-> r.oob]

(* ---------------------------------------------------------------------- *)
(* Start-code scanner and Annex-B -> AVCC extradata                        *)
(* ---------------------------------------------------------------------- *)
SetMin(S) == CHOOSE x \in S : \A y \in S : x <= y

(* first q in [p, end-4] with 00 00 01 at q, else end *)
avc_find_startcode_internal(buf, p) ==
  LET hits == {q \in p..(Len(buf) - 4) :
                 At(buf, q) = 0 /\ At(buf, q + 1) = 0 /\ At(buf, q + 2) = 1}
  IN IF hits = {} THEN Len(buf) ELSE SetMin(hits)

avc_find_startcode(buf, p) ==
  LET out == avc_find_startcode_internal(buf, p)
  IN IF p < out /\ out < Len(buf) /\ At(buf, out - 1) = 0 THEN out - 1 ELSE out

(* while (nal_start < end && !*(nal_start++)); *)
RECURSIVE SkipToNal(_, _)
SkipToNal(buf, q) ==
  IF q < Len(buf)
  THEN IF At(buf, q) = 0 THEN SkipToNal(buf, q + 1) ELSE q + 1
  ELSE q

(* avc_parse_nal_units: the NAL units written, each behind a 32-bit length *)
RECURSIVE ParseNalUnitsFrom(_, _)
ParseNalUnitsFrom(buf, from) ==
  LET nal_start == SkipToNal(buf, from)
  IN IF nal_start = Len(buf)
     THEN <<>>
     ELSE LET nal_end == avc_find_startcode(buf, nal_start)
          IN <<Slice(buf, nal_start, nal_end - nal_start)>>
             \o ParseNalUnitsFrom(buf, nal_end)

avc_parse_nal_units(buf) == ParseNalUnitsFrom(buf, avc_find_startcode(buf, 0))

LastOfType(nals, t) ==
  LET idx == {i \in 1..Len(nals) : Len(nals[i]) > 0 /\ At(nals[i], 0) % 32 = t}
  IN IF idx = {} THEN <<>> ELSE nals[CHOOSE i \in idx : \A j \in idx : j <= i]

(* the buffer avc_parse_nal_units_buf leaves: each NAL behind its 32-bit   *)
(* length                                                                  *)
RECURSIVE LengthPrefixedBytes(_)
LengthPrefixedBytes(nals) ==
  IF nals = <<>> THEN <<>>
  ELSE <<0, 0>> \o WB16(Len(Head(nals))) \o Head(nals)
       \o LengthPrefixedBytes(Tail(nals))

(* the index of the last NAL of type t, 0 when there is none *)
LastIndexOfType(nals, t) ==
  LET idx == {i \in 1..Len(nals) : Len(nals[i]) > 0 /\ At(nals[i], 0) % 32 = t}
  IN IF idx = {} THEN 0 ELSE CHOOSE i \in idx : \A j \in idx : j <= i

(* what sps[0..] reads: the SPS found at index i and, past its end, the    *)
(* rest of the buffer and the zero padding avio_close_dyn_buf adds         *)
SpsAndBeyond(nals, i) ==
  nals[i] \o LengthPrefixedBytes(SubSeq(nals, i + 1, Len(nals))) \o <<0, 0, 0>>

(* the record written from line 1653 on, sps being what SpsAndBeyond gives *)
AvccWritten(sps, sps_size, pps) ==
  <<1, At(sps, 1), At(sps, 2), At(sps, 3), 255, 225>> \o WB16(sps_size)
  \o Slice(sps, 0, sps_size)
  \o (IF pps = <<>> THEN <<>> ELSE <<1>> \o WB16(Len(pps)) \o pps)

(* isom_write_avcc: [abort, crash, bytes]: abort where the assert(0) of a  *)
(* missing or short SPS/PPS is hit (the end of the process in a build with *)
(* assertions), crash where a build without them goes on to read sps[1]   *)
(* from a null pointer, bytes what is written to pb                        *)
isom_write_avcc(data) ==
  IF Len(data) <= 6 THEN [abort |-> FALSE, crash |-> FALSE, bytes |-> <<>>]
  ELSE IF ~(Slice(data, 0, 4) = <<0, 0, 0, 1>> \/ Slice(data, 0, 3) = <<0, 0, 1>>)
  THEN [abort |-> FALSE, crash |-> FALSE, bytes |-> data]
  ELSE LET nals == avc_parse_nal_units(data)
           sps == LastOfType(nals, 7)
           pps == LastOfType(nals, 8)
       IN IF sps = <<>>
          THEN [abort |-> TRUE, crash |-> TRUE, bytes |-> <<>>]
          ELSE [abort |-> pps = <<>> \/ Len(sps) < 4, crash |-> FALSE,
                bytes |-> AvccWritten(SpsAndBeyond(nals, LastIndexOfType(nals, 7)),
                                      Len(sps), pps)]

(* ---------------------------------------------------------------------- *)
(* Configuration records the demuxer may hand over in the stream hints     *)
(* ---------------------------------------------------------------------- *)
(* avcC: version 1, length_size 4, one SPS (67 64), one PPS (68) *)
AvccValid == <<1, 100, 0, 40, 255, 225, 0, 2, 103, 100, 1, 0, 1, 104>>
(* avcC signalling a 3-byte NAL length field (byte 4 = 0xFE) *)
Avcc3Byte == <<1, 100, 0, 40, 254, 225, 0, 2, 103, 100, 1, 0, 1, 104>>
(* avcC whose SPS length runs past the record *)
AvccTruncated == <<1, 100, 0, 40, 255, 225, 0, 9, 103>>
(* H.264 Annex-B extradata: 00 00 00 01 SPS 00 00 01 PPS *)
AvcAnnexB == <<0, 0, 0, 1, 103, 100, 0, 40, 0, 0, 1, 104, 206>>
(* shorter than 7 bytes *)
AvccShort == <<1, 100, 0>>

HvccHeader == <<1, 1, 96, 0, 0, 0, 144, 0, 0, 0, 0, 0, 120, 240, 0, 252, 253, 248,
                248, 0, 0>>
(* hvcC: length_size 4, arrays VPS (40 01), SPS (42 01), PPS (44 01) *)
HvccValid == HvccHeader \o <<15, 3>> \o <<32, 0, 1, 0, 2, 64, 1>>
             \o <<33, 0, 1, 0, 2, 66, 1>> \o <<34, 0, 1, 0, 2, 68, 1>>
(* hvcC signalling a 3-byte NAL length field (byte 21 = 0x0E) *)
Hvcc3Byte == [HvccValid EXCEPT ![22] = 14]
(* hvcC whose byte 4 has 2 in its low two bits *)
HvccByte4 == [HvccValid EXCEPT ![5] = 2]
(* HEVC Annex-B extradata, 23 bytes *)
HevcAnnexB == <<0, 0, 0, 1, 64, 1, 12, 0, 0, 0, 1, 66, 1, 1, 0, 0, 0, 1, 68, 1,
                192, 0, 0>>

dovi_none == [dv_version_major |-> 0, dv_version_minor |-> 0, dv_profile |-> 0,
              dv_level |-> 0, rpu_present_flag |-> 0, el_present_flag |-> 0,
              bl_present_flag |-> 0, dv_bl_signal_compatibility_id |-> 0]

(* a profile 7 (BL+EL+RPU) configuration record *)
dovi_p7 == [dv_version_major |-> 1, dv_version_minor |-> 0, dv_profile |-> 7,
            dv_level |-> 6, rpu_present_flag |-> 1, el_present_flag |-> 1,
            bl_present_flag |-> 1, dv_bl_signal_compatibility_id |-> 6]

MkHints(codec, ed, hdr, dovi) ==
  [codec |-> codec, extradata |-> ed, hdrType |-> hdr, dovi |-> dovi,
   dovi_el_type |-> "TYPE_NONE"]

hdr_static_none == [has_mdcv_metadata |-> FALSE, max_lum |-> 0, min_lum |-> 0,
                    has_cll_metadata |-> FALSE, max_cll |-> 0, max_fall |-> 0]

(* ---------------------------------------------------------------------- *)
(* Bit reader (nal_bitstream)                                              *)
(* ---------------------------------------------------------------------- *)
(* bs = [pos, head, pushed, hitEnd]: pos is bs->data as an offset in buf,   *)
(* pushed the bytes shifted into bs->cache so far (the low head bits of    *)
(* the cache are the last head bits of pushed), hitEnd that a fetch found  *)
(* data >= end.                                                            *)
nal_bs_init == [pos |-> 0, head |-> 0, pushed |-> <<>>, hitEnd |-> FALSE]

(* a variant of CacheLow16Zero that looks at the last byte only *)
CacheLow8Zero(pushed) == Len(pushed) >= 1 /\ pushed[Len(pushed)] = 0

(* (bs->cache & 0xffff) == 0; the cache starts as 0xffffffff *)
CacheLow16Zero(pushed) ==
  Len(pushed) >= 2 /\ pushed[Len(pushed)] = 0 /\ pushed[Len(pushed) - 1] = 0

RECURSIVE nal_bs_fill(_, _, _)
RECURSIVE nal_bs_next_byte(_, _, _, _)

nal_bs_next_byte(buf, bs, n, check_three_byte) ==
  IF bs.pos >= Len(buf)
  THEN [bs |-> [bs EXCEPT !.hitEnd = TRUE], n |-> bs.head]
  ELSE LET a_byte == At(buf, bs.pos)
       IN IF check_three_byte /\ a_byte = 3 /\ CacheLow16Zero(bs.pushed)
          THEN nal_bs_next_byte(buf, [bs EXCEPT !.pos = bs.pos + 1], n, FALSE)
          ELSE nal_bs_fill(buf, [bs EXCEPT !.pos = bs.pos + 1,
                                           !.head = bs.head + 8,
                                           !.pushed = Append(bs.pushed, a_byte)], n)

nal_bs_fill(buf, bs, n) ==
  IF bs.head < n THEN nal_bs_next_byte(buf, bs, n, TRUE) ELSE [bs |-> bs, n |-> n]

Pow2(k) == 2 ^ k

(* bit number k (0 = first) of the pushed bytes, most significant bit first *)
PushedBit(pushed, k) == (pushed[(k \div 8) + 1] \div Pow2(7 - (k % 8))) % 2

RECURSIVE BitsValue(_, _, _)
BitsValue(pushed, from, n) ==
  IF n = 0 THEN 0
  ELSE 2 * BitsValue(pushed, from, n - 1) + PushedBit(pushed, from + n - 1)

(* the n bits nal_bs_read takes from the cache once filled: f = [bs, n] *)
nal_bs_take(f) ==
  [res |-> BitsValue(f.bs.pushed, 8 * Len(f.bs.pushed) - f.bs.head, f.n),
   bs |-> [f.bs EXCEPT !.head = f.bs.head - f.n]]

(* nal_bs_read(bs, n), n <= 31: [res, bs] *)
nal_bs_read(buf, bs, n) ==
  IF n = 0 THEN [res |-> 0, bs |-> bs] ELSE nal_bs_take(nal_bs_fill(buf, bs, n))

nal_bs_eos(buf, bs) == bs.pos >= Len(buf) /\ bs.head = 0

(* the leading-zero count of nal_bs_read_ue: [i, bs]; r is the bit read in *)
(* the loop condition                                                      *)
RECURSIVE ue_zeros(_, _, _)
RECURSIVE ue_zeros_bit(_, _, _)

ue_zeros_bit(buf, r, i) ==
  IF r.res = 0 /\ ~nal_bs_eos(buf, r.bs) /\ i < 31
  THEN ue_zeros(buf, r.bs, i + 1)
  ELSE [i |-> i, bs |-> r.bs]

ue_zeros(buf, bs, i) == ue_zeros_bit(buf, nal_bs_read(buf, bs, 1), i)

(* ((1 << i) - 1 + nal_bs_read(bs, i)) in 32-bit two's complement *)
ue_value(i, r) ==
  [res |-> IF i < 31 THEN Pow2(i) - 1 + r.res
           ELSE IF r.res = 0 THEN 2147483647
           ELSE ((r.res - 1) - 2147483647) - 1,
   bs |-> r.bs]

ue_suffix(buf, z) == ue_value(z.i, nal_bs_read(buf, z.bs, z.i))

(* nal_bs_read_ue: [res, bs] *)
nal_bs_read_ue(buf, bs) == ue_suffix(buf, ue_zeros(buf, bs, 0))

(* nal_bs_read_se *)
nal_bs_read_se(buf, bs) ==
  LET u == nal_bs_read_ue(buf, bs)
      h == IF u.res >= 0 THEN (u.res + 1) \div 2 ELSE -((-(u.res + 1)) \div 2)
  IN [res |-> IF u.res % 2 = 1 THEN h ELSE -h, bs |-> u.bs]

(* ---------------------------------------------------------------------- *)
(* has_sei_recovery_point                                                  *)
(* ---------------------------------------------------------------------- *)
(* do { v += p[offset]; } while (p[offset++] == 0xFF);  [v, offset, oob]   *)
RECURSIVE ReadFF(_, _, _)
ReadFF(p, offset, acc) ==
  IF ~InBuf(p, offset) THEN [v |-> acc, offset |-> offset, oob |-> TRUE]
  ELSE IF At(p, offset) = 255 THEN ReadFF(p, offset + 1, acc + 255)
  ELSE [v |-> acc + At(p, offset), offset |-> offset + 1, oob |-> FALSE]

(* The set of values has_sei_recovery_point(p, p + Len(p)) can return: one  *)
(* value while every read stays inside the NAL, both where a read runs     *)
(* past it (the bytes there are whatever follows the NAL in memory).       *)
RECURSIVE SeiRecoveryFrom(_, _)
SeiRecoveryFrom(p, offset) ==
  LET pt == ReadFF(p, offset, 0)
      ps == ReadFF(p, pt.offset, 0)
  IN IF pt.oob \/ ps.oob THEN BOOLEAN
     ELSE IF pt.v = SEI_RECOVERY_POINT
     THEN LET avail == Len(p) - ps.offset
              n == IF ps.v < avail THEN ps.v ELSE avail
              payload == Slice(p, ps.offset, n)
              u == nal_bs_read_ue(payload, nal_bs_init)
          IN IF u.bs.hitEnd /\ ps.v > avail THEN BOOLEAN ELSE {u.res >= 0}
     ELSE LET next == ps.offset + ps.v
          IN IF next < Len(p) /\ At(p, next) # 128
             THEN SeiRecoveryFrom(p, next)
             ELSE {FALSE}

has_sei_recovery_point(p) == SeiRecoveryFrom(p, 1)

(* ---------------------------------------------------------------------- *)
(* SEI prefix messages (CHevcSei)                                          *)
(* ---------------------------------------------------------------------- *)
SEI_MDCV == 137
SEI_CLL == 144
SEI_T35 == 4

(* ITU-T T.35 header of HDR10+: country B5, provider 003C, oriented code    *)
(* 0001, application identifier 4                                          *)
Hdr10PlusT35 == <<181, 0, 60, 0, 1, 4>>

(* drop each emulation-prevention 03 that follows two zero bytes *)
RECURSIVE ClearEmulation(_, _, _)
ClearEmulation(buf, i, zeros) ==
  IF i >= Len(buf) THEN <<>>
  ELSE LET b == At(buf, i)
       IN IF zeros >= 2 /\ b = 3
          THEN ClearEmulation(buf, i + 1, 0)
          ELSE <<b>> \o ClearEmulation(buf, i + 1, IF b = 0 THEN zeros + 1 ELSE 0)

(* insert 03 after two zero bytes where a byte <= 3 follows *)
RECURSIVE AddEmulation(_, _, _)
AddEmulation(buf, i, zeros) ==
  IF i >= Len(buf) THEN <<>>
  ELSE LET b == At(buf, i)
       IN IF zeros >= 2 /\ b <= 3
          THEN <<3, b>> \o AddEmulation(buf, i + 1, IF b = 0 THEN 1 ELSE 0)
          ELSE <<b>> \o AddEmulation(buf, i + 1, IF b = 0 THEN zeros + 1 ELSE 0)

(* The messages of a cleared SEI RBSP from offset i: payload type and size  *)
(* each coded as 0xFF bytes plus a last byte, then the payload; the list   *)
(* ends at the trailing 0x80.  raw is the message as coded.                *)
RECURSIVE SeiMessagesFrom(_, _)
SeiMessagesFrom(rbsp, i) ==
  IF i >= Len(rbsp) \/ (i = Len(rbsp) - 1 /\ At(rbsp, i) = 128) THEN <<>>
  ELSE LET pt == ReadFF(rbsp, i, 0)
           ps == ReadFF(rbsp, pt.offset, 0)
       IN IF pt.oob \/ ps.oob \/ ps.offset + ps.v > Len(rbsp) THEN <<>>
          ELSE <<[payload_type |-> pt.v, payload_size |-> ps.v,
                  payload |-> Slice(rbsp, ps.offset, ps.v),
                  raw |-> Slice(rbsp, i, ps.offset + ps.v - i)]>>
               \o SeiMessagesFrom(rbsp, ps.offset + ps.v)

(* CHevcSei::ParseSeiRbspUnclearedEmulation on a NAL with its 2-byte header *)
ParseSeiRbspUnclearedEmulation(nal) ==
  IF Len(nal) < 2 THEN <<>>
  ELSE SeiMessagesFrom(ClearEmulation(Slice(nal, 2, Len(nal) - 2), 0, 0), 0)

IsHdr10PlusMessage(m) ==
  m.payload_type = SEI_T35 /\ m.payload_size >= 6
  /\ Slice(m.payload, 0, 6) = Hdr10PlusT35

(* the first of the places idx of a message list, 0 when there is none *)
FirstMessage(idx) == IF idx = {} THEN 0 ELSE SetMin(idx)

ExtractHdr10Plus(messages) ==
  LET i == FirstMessage({k \in 1..Len(messages) : IsHdr10PlusMessage(messages[k])})
  IN IF i = 0 THEN [has |-> FALSE, meta |-> <<>>]
     ELSE [has |-> TRUE, meta |-> messages[i].payload]

IsCllMessage(m) == m.payload_type = SEI_CLL /\ m.payload_size = 4

ExtractContentLightLevel(messages) ==
  LET i == FirstMessage({k \in 1..Len(messages) : IsCllMessage(messages[k])})
  IN IF i = 0 THEN [has |-> FALSE, maxContentLightLevel |-> 0,
                    maxFrameAverageLightLevel |-> 0]
     ELSE [has |-> TRUE, maxContentLightLevel |-> RB16(messages[i].payload, 0),
           maxFrameAverageLightLevel |-> RB16(messages[i].payload, 2)]

IsMdcvMessage(m) == m.payload_type = SEI_MDCV /\ m.payload_size = 24

ExtractMasteringDisplayColourVolume(messages) ==
  LET i == FirstMessage({k \in 1..Len(messages) : IsMdcvMessage(messages[k])})
  IN IF i = 0 THEN [has |-> FALSE, maxLuminance |-> 0, minLuminance |-> 0]
     ELSE [has |-> TRUE,
           maxLuminance |-> RB16(messages[i].payload, 16) * 65536
                            + RB16(messages[i].payload, 18),
           minLuminance |-> RB16(messages[i].payload, 20) * 65536
                            + RB16(messages[i].payload, 22)]

RECURSIVE ConcatRaw(_)
ConcatRaw(messages) ==
  IF messages = <<>> THEN <<>>
  ELSE Head(messages).raw \o ConcatRaw(Tail(messages))

(* CHevcSei::RemoveHdr10PlusFromSeiNalu: the NAL without its HDR10+ message, *)
(* the other messages in order; empty when nothing remains                 *)
RemoveHdr10PlusFromSeiNalu(nal) ==
  LET kept == SelectSeq(ParseSeiRbspUnclearedEmulation(nal),
                        LAMBDA m : ~IsHdr10PlusMessage(m))
  IN IF kept = <<>> THEN <<>>
     ELSE Slice(nal, 0, 2) \o AddEmulation(ConcatRaw(kept) \o <<128>>, 0, 0)

(* ---------------------------------------------------------------------- *)
(* Dolby Vision RPU library and HDR10+ -> DV synthesizer (external)        *)
(* ---------------------------------------------------------------------- *)
(* An RPU NAL is carried as 7C 01 <profile> <el> [FF]: byte 2 stands for    *)
(* the header's guessed_profile, byte 3 for its el_type (0 none, 1 FEL,    *)
(* 2 MEL), and a fifth byte FF for a payload dovi_convert_rpu_with_mode    *)
(* rejects (returns negative).                                             *)
RpuHasHeader(nal) == Len(nal) >= 4

guessed_profile(nal) == At(nal, 2)

el_type(nal) == IF At(nal, 3) = 1 THEN "TYPE_FEL"
                ELSE IF At(nal, 3) = 2 THEN "TYPE_MEL" ELSE "TYPE_NONE"

dovi_convert_rpu_with_mode(nal, mode) == IF Len(nal) >= 5 THEN -1 ELSE 0

dovi_write_unspec62_nalu(nal, mode) ==
  IF mode = MODE_TO81 THEN <<124, 1, 8, 0>> ELSE <<124, 1, 7, 2>>

(* a variant of convert_dovi_rpu_nal that writes the RPU whatever          *)
(* dovi_convert_rpu_with_mode returns                                      *)
convert_dovi_rpu_nal_unchecked(nal, mode) ==
  IF RpuHasHeader(nal) /\ guessed_profile(nal) = 7
  THEN [has |-> TRUE, data |-> dovi_write_unspec62_nalu(nal, mode)]
  ELSE [has |-> FALSE, data |-> <<>>]

(* convert_dovi_rpu_nal: [has, data]; has = FALSE is the NULL return *)
convert_dovi_rpu_nal(nal, mode) ==
  IF RpuHasHeader(nal) /\ guessed_profile(nal) = 7
     /\ dovi_convert_rpu_with_mode(nal, mode) >= 0
  THEN [has |-> TRUE, data |-> dovi_write_unspec62_nalu(nal, mode)]
  ELSE [has |-> FALSE, data |-> <<>>]

(* the dovi_el_type get_dovi_rpu_info stores on the first frame *)
RpuInfoElType(nal) ==
  IF RpuHasHeader(nal) /\ guessed_profile(nal) \in {4, 7} THEN el_type(nal)
  ELSE "TYPE_NONE"

(* create_rpu_nalu_for_hdr10plus: a profile 8.1 RPU NAL, or empty when the  *)
(* HDR10+ payload cannot be converted (here: its last byte is 0)           *)
create_rpu_nalu_for_hdr10plus(meta) ==
  IF meta # <<>> /\ meta[Len(meta)] # 0 THEN <<124, 1, 8, 0>> ELSE <<>>

(* ---------------------------------------------------------------------- *)
(* The converter                                                           *)
(* ---------------------------------------------------------------------- *)
(* ---------------------------------------------------------------------- *)
(* The NALs of the input streams                                           *)
(* ---------------------------------------------------------------------- *)
(* H.264 NALs: SPS, IDR slice, non-IDR slice, a recovery-point SEI, a      *)
(* picture-timing SEI                                                      *)
AvcSps == <<103, 100>>
AvcIdr == <<101>>
AvcSlice == <<65>>
AvcSeiRecovery == <<6, 6, 1, 132, 128>>
AvcSeiTiming == <<6, 1, 1, 0, 128>>
AvcNals == {AvcSps, AvcIdr, AvcSlice, AvcSeiRecovery, AvcSeiTiming}

(* HEVC NALs: SPS, IDR_W_RADL, CRA, TRAIL_R, a recovery-point SEI *)
HevcSps == <<66, 1>>
HevcIdr == <<38, 1>>
HevcCra == <<42, 1>>
HevcTrail == <<2, 1>>
HevcSeiRecovery == <<78, 1, 6, 1, 132, 128>>
HevcNals == {HevcSps, HevcIdr, HevcCra, HevcTrail, HevcSeiRecovery}

(* Dolby Vision / HDR10+ NALs: an HDR10+ SEI, a SEI carrying content light *)
(* level and HDR10+, a profile 7 RPU, an EL NAL (63)                       *)
SeiHdr10Plus == <<78, 1, 4, 7, 181, 0, 60, 0, 1, 4, 1, 128>>
SeiCllHdr10Plus == <<78, 1, 144, 4, 3, 232, 1, 144, 4, 7, 181, 0, 60, 0, 1, 4, 1, 128>>
RpuP7 == <<124, 1, 7, 1>>
(* RPUs that are not converted: a profile 7 RPU whose conversion fails, a  *)
(* profile 5 RPU                                                           *)
RpuP7Fails == <<124, 1, 7, 1, 255>>
RpuP5 == <<124, 1, 5, 0>>
RpuNals == {RpuP7, RpuP7Fails, RpuP5, SeiHdr10Plus, HevcCra}
ElNal == <<126, 1, 2, 1>>
(* an HEVC end-of-sequence NAL (type 36) and a NAL of the reserved HEVC     *)
(* type 10, the value of AVC_NAL_END_SEQUENCE                              *)
HevcEos == <<72, 1>>
HevcRsv10 == <<20, 1>>
DualBlNals == {HevcTrail, HevcEos, HevcRsv10, SeiHdr10Plus}
DualElNals == {RpuP7, HevcTrail}
DvNals == {SeiHdr10Plus, RpuP7, ElNal, HevcCra}
SeiNals == {SeiHdr10Plus, SeiCllHdr10Plus, HevcTrail}

(* SEI prefix NALs with HDR static metadata: a content light level message *)
(* with max_cll 256 + a and max_fall 256 + b, a mastering display colour   *)
(* volume message with max_luminance 16843008 + a and min_luminance        *)
(* 16843008 + b, and a NAL with both messages                              *)
CllMessage(a, b) == <<SEI_CLL, 4, 1, a, 1, b>>
MdcvMessage(a, b) == <<SEI_MDCV, 24>> \o [i \in 1..16 |-> 1] \o <<1, 1, 1, a, 1, 1, 1, b>>
SeiCll(a, b) == <<78, 1>> \o CllMessage(a, b) \o <<128>>
SeiMdcv(a, b) == <<78, 1>> \o MdcvMessage(a, b) \o <<128>>
SeiMdcvCll(a, b) == <<78, 1>> \o MdcvMessage(a, b) \o CllMessage(a, b) \o <<128>>
HdrSeiNals == {SeiCll(1, 1), SeiCll(1, 2), SeiMdcv(1, 1), SeiMdcv(2, 1),
               SeiMdcvCll(1, 1)}

(* What the SEI parser and has_sei_recovery_point give on the SEI NALs of  *)
(* the streams (every NAL of the streams whose unit type is SEI under its  *)
(* codec), tabulated once.                                                 *)
SeiInputs == {SeiHdr10Plus, SeiCllHdr10Plus, HevcSeiRecovery, AvcSeiRecovery,
              AvcSeiTiming} \cup HdrSeiNals

SeiParse(nal) ==
  LET messages == ParseSeiRbspUnclearedEmulation(nal)
  IN [colourVolume |-> ExtractMasteringDisplayColourVolume(messages),
      lightLevel |-> ExtractContentLightLevel(messages),
      hdr10plus |-> ExtractHdr10Plus(messages),
      removed |-> RemoveHdr10PlusFromSeiNalu(nal),
      recovery |-> has_sei_recovery_point(nal)]

SeiTable == [nal \in SeiInputs |-> SeiParse(nal)]

SeiOf(nal) == SeiTable[nal]

VARIABLES
  m_hints,                        \* CDVDStreamInfo& shared with the caller
  m_codec, m_to_annexb,
  m_convert_bitstream, m_convert_bytestream, m_convert_3byteTo4byteNALSize,
  m_combine,
  m_extraData,
  m_sps_pps_context,              \* [length_size, first_idr, idr_sps_pps_seen, sps_pps_data]
  m_start_decode, m_first_frame,
  m_convert_dovi, m_removeDovi, m_removeHdr10Plus, m_convert_Hdr10Plus,
  m_prefer_Hdr10Plus_conversion, m_dual_priority_Hdr10Plus,
  m_intial_hdrType,
  m_hdrStaticMetadataInfo,
  m_dataCacheCore,                \* the SetVideoHDRStaticMetadataInfo calls of the last call
  m_convertBuffer, m_inputBuffer, \* NULL or the buffer's content
  opened,                         \* Open returned true and Close was not called since
  call                            \* the last call made on the instance and its result

flags == <<m_convert_dovi, m_removeDovi, m_removeHdr10Plus, m_convert_Hdr10Plus,
           m_prefer_Hdr10Plus_conversion, m_dual_priority_Hdr10Plus>>

modes == <<m_codec, m_to_annexb, m_convert_bitstream, m_convert_bytestream,
           m_convert_3byteTo4byteNALSize, m_extraData, m_intial_hdrType>>

vars == <<m_hints, modes, m_combine, m_sps_pps_context, m_start_decode,
          m_first_frame, flags, m_hdrStaticMetadataInfo, m_dataCacheCore,
          m_convertBuffer, m_inputBuffer, opened, call>>

(* IsIDR / IsSlice *)
IsIDR(unit_type) ==
  IF m_codec = AV_CODEC_ID_H264 THEN unit_type = AVC_NAL_IDR_SLICE
  ELSE IF m_codec = AV_CODEC_ID_HEVC
  THEN unit_type \in {HEVC_NAL_IDR_W_RADL, HEVC_NAL_IDR_N_LP, HEVC_NAL_CRA_NUT}
  ELSE FALSE

IsSlice(unit_type) ==
  IF m_codec = AV_CODEC_ID_H264 THEN unit_type = AVC_NAL_SLICE
  ELSE IF m_codec = AV_CODEC_ID_HEVC
  THEN unit_type \in {HEVC_NAL_TRAIL_R, HEVC_NAL_TRAIL_N, HEVC_NAL_TSA_N,
                      HEVC_NAL_TSA_R, HEVC_NAL_STSA_N, HEVC_NAL_STSA_R,
                      HEVC_NAL_BLA_W_LP, HEVC_NAL_BLA_W_RADL, HEVC_NAL_BLA_N_LP,
                      HEVC_NAL_CRA_NUT, HEVC_NAL_RADL_N, HEVC_NAL_RADL_R,
                      HEVC_NAL_RASL_N, HEVC_NAL_RASL_R}
  ELSE FALSE

(* The output buffer is the sequence of the pieces appended to it.  A piece *)
(* is [pre, sc, nal, org, idx]: the prologue copied in front (or <<>>), the *)
(* start code or header written, the NAL bytes, and, for the record, where *)
(* the NAL came from (org) and its position in the input packet (idx).     *)
RECURSIVE BufSize(_)
BufSize(buf) ==
  IF buf = <<>> THEN 0
  ELSE Len(Head(buf).pre) + Len(Head(buf).sc) + Len(Head(buf).nal) + BufSize(Tail(buf))

(* the bytes of the buffer, as the memcpy calls and start-code writes of    *)
(* BitstreamAllocAndCopy lay them out                                      *)
RECURSIVE BufBytes(_)
BufBytes(buf) ==
  IF buf = <<>> THEN <<>>
  ELSE Head(buf).pre \o Head(buf).sc \o Head(buf).nal \o BufBytes(Tail(buf))

(* a variant of BitstreamAllocAndCopy without the rule for NAL type 62: the *)
(* header size follows the offset alone                                    *)
BitstreamAllocAndCopyByOffset(buf, sps_pps, in, nal_type, org, idx) ==
  Append(buf, [pre |-> sps_pps,
               sc |-> IF BufSize(buf) = 0 THEN <<0, 0, 0, 1>> ELSE <<0, 0, 1>>,
               nal |-> in, org |-> org, idx |-> idx])

(* a variant of BitstreamAllocAndCopy that writes the NAL in front of the  *)
(* buffer                                                                  *)
BitstreamAllocAndCopyInFront(buf, sps_pps, in, nal_type, org, idx) ==
  <<[pre |-> sps_pps, sc |-> <<0, 0, 0, 1>>, nal |-> in, org |-> org, idx |-> idx]>>
  \o buf

(* BitstreamAllocAndCopy(poutbuf, int* poutbuf_size, sps_pps, sps_pps_size,  *)
(* in, in_size, nal_type)                                                  *)
BitstreamAllocAndCopy(buf, sps_pps, in, nal_type, org, idx) ==
  LET offset == BufSize(buf)
      nal_header_size == IF nal_type = HEVC_NAL_UNSPEC62 THEN 4
                         ELSE IF offset # 0 THEN 3 ELSE 4
      sc == IF offset = 0 THEN <<0, 0, 0, 1>>
            ELSE IF nal_header_size = 4 THEN <<0, 0, 0, 1>>
            ELSE <<0, 0, 1>>
  IN Append(buf, [pre |-> sps_pps, sc |-> sc, nal |-> in, org |-> org, idx |-> idx])

(* BitstreamAllocAndCopy(poutbuf, uint32_t* poutbuf_size, in, in_size,       *)
(* nal_type)                                                               *)
BitstreamAllocAndCopy32(buf, in, nal_type, org, idx) ==
  LET offset == BufSize(buf)
      nal_header_size == IF nal_type = HEVC_NAL_UNSPEC62 THEN 4
                         ELSE IF nal_type = HEVC_NAL_UNSPEC63 THEN 5
                         ELSE IF offset # 0 THEN 3 ELSE 4
      sc == IF nal_header_size = 5 THEN <<0, 0, 1, HEVC_NAL_UNSPEC63 * 2, 1>>
            ELSE IF nal_header_size = 4 THEN <<0, 0, 0, 1>>
            ELSE <<0, 0, 1>>
  IN Append(buf, [pre |-> <<>>, sc |-> sc, nal |-> in, org |-> org, idx |-> idx])

(* The state a Convert call works on: c = [ctx, start_decode, hints, hdr,   *)
(* buf, meta, convert_hdr10plus_meta, published]; published lists what the  *)
(* call has handed to SetVideoHDRStaticMetadataInfo, each with the place   *)
(* idx of the NAL it came from.                                            *)
ConvertState ==
  [ctx |-> m_sps_pps_context, start_decode |-> m_start_decode, hints |-> m_hints,
   hdr |-> m_hdrStaticMetadataInfo, buf |-> <<>>, meta |-> <<>>,
   convert_hdr10plus_meta |-> FALSE, published |-> <<>>]

(* the conditions under which the Apply functions store the metadata and   *)
(* raise update                                                            *)
MasteringDisplayColourVolumeChanges(hdr, metadata) ==
  hdr.max_lum # metadata.maxLuminance \/ hdr.min_lum # metadata.minLuminance
  \/ ~hdr.has_mdcv_metadata

(* a variant that compares max_cll only *)
ContentLightLevelChangesMaxCll(hdr, metadata) ==
  hdr.max_cll # metadata.maxContentLightLevel \/ ~hdr.has_cll_metadata

ContentLightLevelChanges(hdr, metadata) ==
  hdr.max_cll # metadata.maxContentLightLevel
  \/ hdr.max_fall # metadata.maxFrameAverageLightLevel
  \/ ~hdr.has_cll_metadata

ApplyMasteringDisplayColourVolume(hdr, metadata) ==
  IF MasteringDisplayColourVolumeChanges(hdr, metadata)
  THEN [hdr EXCEPT !.has_mdcv_metadata = TRUE, !.max_lum = metadata.maxLuminance,
                   !.min_lum = metadata.minLuminance]
  ELSE hdr

ApplyContentLightLevel(hdr, metadata) ==
  IF ContentLightLevelChanges(hdr, metadata)
  THEN [hdr EXCEPT !.has_cll_metadata = TRUE,
                   !.max_cll = metadata.maxContentLightLevel,
                   !.max_fall = metadata.maxFrameAverageLightLevel]
  ELSE hdr

(* UpdateHdrStaticMetadata: the aggregate goes to process-info *)
UpdateHdrStaticMetadata(published, hdr, idx) ==
  Append(published, [idx |-> idx, info |-> hdr])

(* a variant of ProcessSeiPrefix that always copies the SEI NAL as it came *)
ProcessSeiPrefixCopies(c, nal, idx) ==
  [c EXCEPT !.buf = BitstreamAllocAndCopy(c.buf, <<>>, nal, HEVC_NAL_SEI_PREFIX,
                                          "in", idx)]

(* ProcessSeiPrefix from the parsed messages on: sei is what the SEI       *)
(* parser gives on nal                                                     *)
ProcessSeiMessages(c, nal, idx, sei) ==
  LET colourVolume == sei.colourVolume
      lightLevel == sei.lightLevel
      hdr1 == IF colourVolume.has
              THEN ApplyMasteringDisplayColourVolume(c.hdr, colourVolume) ELSE c.hdr
      hdr2 == IF lightLevel.has THEN ApplyContentLightLevel(hdr1, lightLevel) ELSE hdr1
      updateMetadata ==
        \/ colourVolume.has /\ MasteringDisplayColourVolumeChanges(c.hdr, colourVolume)
        \/ lightLevel.has /\ ContentLightLevelChanges(hdr1, lightLevel)
      res == sei.hdr10plus
      isDual == m_intial_hdrType = HDR_TYPE_DOLBYVISION
      considerAsHdr10Plus == ~isDual \/ m_dual_priority_Hdr10Plus
                             \/ m_prefer_Hdr10Plus_conversion
      convert == considerAsHdr10Plus /\ m_convert_Hdr10Plus
                 /\ ~m_dual_priority_Hdr10Plus
      hints1 == IF res.has /\ m_first_frame /\ considerAsHdr10Plus
                THEN [c.hints EXCEPT !.hdrType = HDR_TYPE_HDR10PLUS] ELSE c.hints
      nalu == sei.removed
      copy == ~(res.has /\ (convert \/ m_removeHdr10Plus))
      buf1 == IF copy
              THEN BitstreamAllocAndCopy(c.buf, <<>>, nal, HEVC_NAL_SEI_PREFIX, "in", idx)
              ELSE IF nalu # <<>>
              THEN BitstreamAllocAndCopy(c.buf, <<>>, nalu, HEVC_NAL_SEI_PREFIX, "sei", idx)
              ELSE c.buf
  IN [c EXCEPT !.hdr = hdr2, !.hints = hints1, !.buf = buf1,
               !.published = IF updateMetadata
                             THEN UpdateHdrStaticMetadata(c.published, hdr2, idx)
                             ELSE c.published,
               !.meta = IF res.has /\ convert THEN res.meta ELSE c.meta,
               !.convert_hdr10plus_meta = c.convert_hdr10plus_meta
                                          \/ (res.has /\ convert)]

(* ProcessSeiPrefix *)
ProcessSeiPrefix(c, nal, idx) == ProcessSeiMessages(c, nal, idx, SeiOf(nal))

(* ProcessDoViRpu *)
ProcessDoViRpu(c, nal, idx) ==
  LET rpu_data == IF m_convert_dovi # MODE_NONE
                  THEN convert_dovi_rpu_nal(nal, m_convert_dovi)
                  ELSE [has |-> FALSE, data |-> <<>>]
      nal_buf == IF rpu_data.has THEN rpu_data.data ELSE nal
      dovi1 == IF rpu_data.has
               THEN [c.hints.dovi EXCEPT !.el_present_flag = 0]
               ELSE c.hints.dovi
      dovi2 == IF rpu_data.has /\ m_convert_dovi = MODE_TO81
               THEN [dovi1 EXCEPT !.dv_profile = 8,
                                  !.dv_bl_signal_compatibility_id = 1]
               ELSE dovi1
      \* get_dovi_rpu_info stores dovi_el_type on the first frame
      elt == IF m_first_frame THEN RpuInfoElType(nal_buf) ELSE c.hints.dovi_el_type
  IN [c EXCEPT !.hints = [c.hints EXCEPT !.dovi = dovi2, !.dovi_el_type = elt],
               !.buf = BitstreamAllocAndCopy(c.buf, <<>>, nal_buf, HEVC_NAL_UNSPEC62,
                                             IF rpu_data.has THEN "rpu_conv" ELSE "in",
                                             idx)]

(* AddDoViRpuNalu *)
AddDoViRpuNalu(c) ==
  LET nalu == create_rpu_nalu_for_hdr10plus(c.meta)
      hints1 == IF m_first_frame
                THEN [c.hints EXCEPT
                        !.hdrType = HDR_TYPE_DOLBYVISION,
                        !.dovi = [dv_version_major |-> 1, dv_version_minor |-> 0,
                                  dv_profile |-> 8, dv_level |-> 6,
                                  rpu_present_flag |-> 1, el_present_flag |-> 0,
                                  bl_present_flag |-> 1,
                                  dv_bl_signal_compatibility_id |-> 1],
                        !.dovi_el_type = RpuInfoElType(nalu)]
                ELSE c.hints
  IN IF nalu = <<>> THEN c
     ELSE [c EXCEPT !.hints = hints1,
                    !.buf = BitstreamAllocAndCopy(c.buf, <<>>, nalu, HEVC_NAL_UNSPEC62,
                                                  "rpu_synth", 0)]

(* One NAL of BitstreamConvert's do-while loop, lines 1404-1463.  guess is *)
(* the value has_sei_recovery_point returns where it reads past the NAL.   *)
UnitType(nal) ==
  IF m_codec = AV_CODEC_ID_H264 THEN At(nal, 0) % 32 ELSE (At(nal, 0) \div 2) % 64

SeiRecoveryPoint(nal, guess) ==
  LET R == SeiOf(nal).recovery IN IF R = BOOLEAN THEN guess ELSE TRUE \in R

(* a variant that assigns the flag from the NAL instead of latching it: it *)
(* lets a Convert clear CanStartDecode()                                   *)
StartDecodeAssigned(start_decode, nal, guess) ==
  LET unit_type == UnitType(nal)
      nal_sps == IF m_codec = AV_CODEC_ID_H264 THEN AVC_NAL_SPS ELSE HEVC_NAL_SPS
  IN unit_type = nal_sps \/ IsIDR(unit_type)

StartDecodeAfter(start_decode, nal, guess) ==
  LET unit_type == UnitType(nal)
      nal_sps == IF m_codec = AV_CODEC_ID_H264 THEN AVC_NAL_SPS ELSE HEVC_NAL_SPS
      nal_sei == IF m_codec = AV_CODEC_ID_H264 THEN AVC_NAL_SEI ELSE HEVC_NAL_SEI_PREFIX
  IN IF ~start_decode
        /\ (unit_type = nal_sps \/ IsIDR(unit_type)
            \/ (unit_type = nal_sei /\ SeiRecoveryPoint(nal, guess)))
     THEN TRUE ELSE start_decode

(* a variant of the switch that copies the EL NAL whatever the conversion *)
(* mode is                                                                 *)
DispatchNalKeepsEl(c, nal, idx) ==
  LET unit_type == UnitType(nal)
  IN IF unit_type = HEVC_NAL_SEI_PREFIX THEN ProcessSeiPrefix(c, nal, idx)
     ELSE IF unit_type = HEVC_NAL_UNSPEC62
     THEN IF ~m_removeDovi /\ ~c.convert_hdr10plus_meta
          THEN ProcessDoViRpu(c, nal, idx) ELSE c
     ELSE IF unit_type = HEVC_NAL_UNSPEC63
     THEN IF ~m_removeDovi /\ ~c.convert_hdr10plus_meta
          THEN [c EXCEPT !.buf = BitstreamAllocAndCopy(c.buf, <<>>, nal, unit_type,
                                                       "in", idx)]
          ELSE c
     ELSE [c EXCEPT !.buf = BitstreamAllocAndCopy(c.buf, <<>>, nal, unit_type, "in", idx)]

(* the switch (unit_type) of lines 1440-1459 *)
DispatchNal(c, nal, idx) ==
  LET unit_type == UnitType(nal)
  IN IF unit_type = HEVC_NAL_SEI_PREFIX THEN ProcessSeiPrefix(c, nal, idx)
     ELSE IF unit_type = HEVC_NAL_UNSPEC62
     THEN IF ~m_removeDovi /\ ~c.convert_hdr10plus_meta
          THEN ProcessDoViRpu(c, nal, idx) ELSE c
     ELSE IF unit_type = HEVC_NAL_UNSPEC63
     THEN IF ~m_removeDovi /\ ~c.convert_hdr10plus_meta /\ m_convert_dovi = MODE_NONE
          THEN [c EXCEPT !.buf = BitstreamAllocAndCopy(c.buf, <<>>, nal, unit_type,
                                                       "in", idx)]
          ELSE c
     ELSE [c EXCEPT !.buf = BitstreamAllocAndCopy(c.buf, <<>>, nal, unit_type, "in", idx)]

BitstreamConvertNal(c, nal, idx, guess) ==
  LET unit_type == UnitType(nal)
      nal_sps == IF m_codec = AV_CODEC_ID_H264 THEN AVC_NAL_SPS ELSE HEVC_NAL_SPS
      nal_pps == IF m_codec = AV_CODEC_ID_H264 THEN AVC_NAL_PPS ELSE HEVC_NAL_PPS
      ctx1 == IF c.ctx.first_idr # 0 /\ unit_type \in {nal_sps, nal_pps}
              THEN [c.ctx EXCEPT !.idr_sps_pps_seen = 1] ELSE c.ctx
      c1 == [c EXCEPT !.ctx = ctx1,
                      !.start_decode = StartDecodeAfter(c.start_decode, nal, guess)]
  IN IF ctx1.first_idr # 0 /\ IsIDR(unit_type) /\ ctx1.idr_sps_pps_seen = 0
     THEN [c1 EXCEPT !.buf = BitstreamAllocAndCopy(c1.buf, ctx1.sps_pps_data, nal,
                                                   unit_type, "in", idx),
                     !.ctx = [ctx1 EXCEPT !.first_idr = 0]]
     ELSE LET ctx2 == IF ctx1.first_idr = 0 /\ IsSlice(unit_type)
                      THEN [ctx1 EXCEPT !.first_idr = 1, !.idr_sps_pps_seen = 0]
                      ELSE ctx1
          IN DispatchNal([c1 EXCEPT !.ctx = ctx2], nal, idx)

RECURSIVE BitstreamConvertLoop(_, _, _, _)
BitstreamConvertLoop(c, nals, idx, guess) ==
  IF idx > Len(nals) THEN c
  ELSE BitstreamConvertLoop(BitstreamConvertNal(c, nals[idx], idx, guess), nals,
                            idx + 1, guess)

(* a variant of the end of BitstreamConvert whose fail path leaves the     *)
(* output written so far in place                                          *)
BitstreamConvertKeepsPartial(pkt, c) ==
  IF pkt.trunc \/ pkt.nals = <<>>
  THEN [ok |-> FALSE, c |-> c, first_frame |-> m_first_frame]
  ELSE [ok |-> TRUE,
        c |-> IF c.convert_hdr10plus_meta THEN AddDoViRpuNalu(c) ELSE c,
        first_frame |-> FALSE]

(* the end of BitstreamConvert, lines 1465-1477: c is the state the loop   *)
(* left                                                                    *)
BitstreamConvertEnd(pkt, c) ==
  IF pkt.trunc \/ pkt.nals = <<>>
  THEN [ok |-> FALSE, c |-> [c EXCEPT !.buf = <<>>], first_frame |-> m_first_frame]
  ELSE [ok |-> TRUE,
        c |-> IF c.convert_hdr10plus_meta THEN AddDoViRpuNalu(c) ELSE c,
        first_frame |-> FALSE]

(* a variant of BitstreamConvert that clears the first-frame flag on the   *)
(* fail path too                                                           *)
BitstreamConvertClearsAlways(pkt, guess) ==
  [BitstreamConvertEnd(pkt, BitstreamConvertLoop(ConvertState, pkt.nals, 1, guess))
     EXCEPT !.first_frame = FALSE]

(* BitstreamConvert: [ok, c, first_frame].  A packet is [null, nals, trunc]: *)
(* its well-formed NALs in order, and trunc when what follows them is a    *)
(* NAL whose length field or declared length runs past the packet (or is   *)
(* <= 0); an empty packet fails on its first length field.                 *)
BitstreamConvert(pkt, guess) ==
  BitstreamConvertEnd(pkt, BitstreamConvertLoop(ConvertState, pkt.nals, 1, guess))

NullBuf == [null |-> TRUE, data |-> <<>>]

Buf(data) == [null |-> FALSE, data |-> data]

(* the length-prefixed rewrite of the byte-stream and 3-to-4 paths *)
WB32(n) == <<0, 0>> \o WB16(n)

LengthPrefixed(nals) ==
  [i \in 1..Len(nals) |-> [pre |-> <<>>, sc |-> WB32(Len(nals[i])), nal |-> nals[i],
                           org |-> "in", idx |-> i]]

NullPkt == [null |-> TRUE, nals |-> <<>>, trunc |-> FALSE]

Pkt(nals, trunc) == [null |-> FALSE, nals |-> nals, trunc |-> trunc]

(* the bytes of an Annex-B packet: each NAL behind a 4-byte start code, and *)
(* a dangling 3-byte start code when the packet is cut                     *)
RECURSIVE AnnexBNals(_)
AnnexBNals(nals) ==
  IF nals = <<>> THEN <<>> ELSE nalu_header \o Head(nals) \o AnnexBNals(Tail(nals))

AnnexBBytes(pkt) == AnnexBNals(pkt.nals) \o (IF pkt.trunc THEN <<0, 0, 1>> ELSE <<>>)

(* ---------------------------------------------------------------------- *)
(* Dual-track Convert: the BL loop, the EL loop                            *)
(* ---------------------------------------------------------------------- *)
HevcType(nal) == (At(nal, 0) \div 2) % 64

(* d = [c, has_eos, eos] *)
SetBlPresent(d) == [d EXCEPT !.c.hints.dovi.bl_present_flag = 1]

SetElPresent(d) == [d EXCEPT !.c.hints.dovi.el_present_flag = 1]

DualBlNal(d, nal, idx) ==
  LET nal_type == HevcType(nal)
  IN SetBlPresent(IF nal_type = HEVC_NAL_SEI_PREFIX
                  THEN [d EXCEPT !.c = ProcessSeiPrefix(d.c, nal, idx)]
                  ELSE IF nal_type = AVC_NAL_END_SEQUENCE
                  THEN [d EXCEPT !.has_eos = TRUE, !.eos = nal]
                  ELSE [d EXCEPT !.c.buf = BitstreamAllocAndCopy32(d.c.buf, nal, nal_type,
                                                                   "bl", idx)])

DualElNal(d, nal, idx) ==
  LET nal_type == HevcType(nal)
  IN SetElPresent(IF nal_type = HEVC_NAL_UNSPEC62
                  THEN IF ~m_removeDovi /\ ~d.c.convert_hdr10plus_meta
                       THEN [d EXCEPT !.c = ProcessDoViRpu(d.c, nal, idx)] ELSE d
                  ELSE IF ~m_removeDovi /\ ~d.c.convert_hdr10plus_meta
                          /\ m_convert_dovi = MODE_NONE
                  THEN [d EXCEPT !.c.buf = BitstreamAllocAndCopy32(d.c.buf, nal,
                                                                   HEVC_NAL_UNSPEC63,
                                                                   "el", idx)]
                  ELSE d)

RECURSIVE DualBlLoop(_, _, _)
DualBlLoop(d, nals, idx) ==
  IF idx > Len(nals) THEN d ELSE DualBlLoop(DualBlNal(d, nals[idx], idx), nals, idx + 1)

RECURSIVE DualElLoop(_, _, _)
DualElLoop(d, nals, idx) ==
  IF idx > Len(nals) THEN d ELSE DualElLoop(DualElNal(d, nals[idx], idx), nals, idx + 1)

(* the end of the dual-track Convert: the synthesized RPU, then the end of *)
(* sequence NAL held back from the BL loop                                 *)
ConvertCombineEnd(d) ==
  LET c3 == IF d.c.convert_hdr10plus_meta THEN AddDoViRpuNalu(d.c) ELSE d.c
  IN IF d.has_eos
     THEN [c3 EXCEPT !.buf = BitstreamAllocAndCopy32(c3.buf, d.eos,
                                                     AVC_NAL_END_SEQUENCE, "bl", 0)]
     ELSE c3

(* the NALs the loops of the dual-track Convert walk over *)
DualNals(pkt) ==
  IF m_convert_bitstream THEN pkt.nals ELSE avc_parse_nal_units(AnnexBBytes(pkt))

(* the body of the dual-track Convert under if (pData_bl && pData_el) *)
ConvertCombine(bl, el) ==
  ConvertCombineEnd(
    DualElLoop(DualBlLoop([c |-> ConvertState, has_eos |-> FALSE, eos |-> <<>>],
                          DualNals(bl), 1),
               DualNals(el), 1))

(* GetConvertBuffer *)
UsesConvertBuffer ==
  (m_convert_bitstream \/ m_convert_bytestream \/ m_convert_3byteTo4byteNALSize
   \/ m_combine) /\ ~m_convertBuffer.null

GetConvertBuffer == IF UsesConvertBuffer THEN m_convertBuffer ELSE m_inputBuffer

(* GetConvertSize: m_convertSize is the size of m_convertBuffer;           *)
(* m_inputSize is 0 with a null m_inputBuffer and else the size of the     *)
(* packet handed in (counted here with four bytes in front of each NAL)    *)
GetConvertSize ==
  IF UsesConvertBuffer THEN BufSize(m_convertBuffer.data)
  ELSE IF m_inputBuffer.null THEN 0
  ELSE Len(AnnexBBytes(m_inputBuffer.data))

(* GetExtraData / GetExtraSize: m_sps_pps_context.size is the size of      *)
(* sps_pps_data                                                            *)
GetExtraData ==
  IF m_convert_bitstream THEN m_sps_pps_context.sps_pps_data ELSE m_extraData

GetExtraSize == Len(GetExtraData)

(* CanStartDecode / NeedConvert *)
CanStartDecode == m_start_decode

NeedConvert == m_convert_bitstream

(* ---------------------------------------------------------------------- *)
(* The instance                                                            *)
(* ---------------------------------------------------------------------- *)
UNSET == "UNSET"

Call(op, ret, pkt, el) == [op |-> op, ret |-> ret, pkt |-> pkt, el |-> el]

(* The constructor.  m_codec, m_intial_hdrType and the fields of           *)
(* m_sps_pps_context other than sps_pps_data are left uninitialized:       *)
(* first_idr and idr_sps_pps_seen start with either truth value.           *)
Construct(hints, first_idr, idr_sps_pps_seen) ==
  /\ m_hints = hints
  /\ m_codec = UNSET
  /\ m_intial_hdrType = UNSET
  /\ m_to_annexb = FALSE
  /\ m_convert_bitstream = FALSE
  /\ m_convert_bytestream = FALSE
  /\ m_convert_3byteTo4byteNALSize = FALSE
  /\ m_combine = FALSE
  /\ m_extraData = <<>>
  /\ m_sps_pps_context = [length_size |-> 0, first_idr |-> first_idr,
                          idr_sps_pps_seen |-> idr_sps_pps_seen, sps_pps_data |-> <<>>]
  /\ m_start_decode = TRUE
  /\ m_first_frame = TRUE
  /\ m_convert_dovi = MODE_NONE
  /\ m_removeDovi = FALSE
  /\ m_removeHdr10Plus = FALSE
  /\ m_convert_Hdr10Plus = FALSE
  /\ m_prefer_Hdr10Plus_conversion = FALSE
  /\ m_dual_priority_Hdr10Plus = FALSE
  /\ m_hdrStaticMetadataInfo = hdr_static_none
  /\ m_dataCacheCore = <<>>
  /\ m_convertBuffer = NullBuf
  /\ m_inputBuffer = NullBuf
  /\ opened = FALSE
  /\ call = Call("new", TRUE, NullPkt, NullPkt)

HasStartCode(ed) ==
  \/ At(ed, 0) = 0 /\ At(ed, 1) = 0 /\ At(ed, 2) = 0 /\ At(ed, 3) = 1
  \/ At(ed, 0) = 0 /\ At(ed, 1) = 0 /\ At(ed, 2) = 1

(* a variant of ContextAfterInit that leaves first_idr and                 *)
(* idr_sps_pps_seen as they were                                           *)
ContextNotArmed(r) ==
  [m_sps_pps_context EXCEPT !.length_size = r.length_size, !.sps_pps_data = r.out]

(* what BitstreamConvertInitAVC / BitstreamConvertInitHEVC leave in        *)
(* m_sps_pps_context                                                       *)
ContextAfterInit(r) ==
  IF r.ok
  THEN [length_size |-> r.length_size, first_idr |-> 1, idr_sps_pps_seen |-> 0,
        sps_pps_data |-> r.out]
  ELSE [m_sps_pps_context EXCEPT !.length_size = r.length_size, !.sps_pps_data = <<>>]

(* Open: [ret, bitstream, bytestream, nal3to4, extraData, ctx, extradata]  *)
(* are the return value and the members and hints it leaves; avio_ok is    *)
(* whether avio_open_dyn_buf succeeds.                                     *)
OpenKeep(ret) ==
  [ret |-> ret, bitstream |-> m_convert_bitstream, bytestream |-> m_convert_bytestream,
   nal3to4 |-> m_convert_3byteTo4byteNALSize, extraData |-> m_extraData,
   ctx |-> m_sps_pps_context, extradata |-> m_hints.extradata]

(* a variant of the AVC case of Open that leaves a record signalling a     *)
(* 3-byte length field as it is                                            *)
OpenAVCNoPatch(to_annexb, avio_ok) ==
  LET ed == m_hints.extradata
  IN IF Len(ed) < 7 THEN OpenKeep(FALSE)
     ELSE IF to_annexb
     THEN IF At(ed, 0) = 1
          THEN LET r == BitstreamConvertInitAVC(ed)
               IN [OpenKeep(TRUE) EXCEPT !.extraData = ed, !.bitstream = r.ok,
                                         !.ctx = ContextAfterInit(r)]
          ELSE OpenKeep(FALSE)
     ELSE IF At(ed, 0) # 1
     THEN IF HasStartCode(ed)
          THEN IF ~avio_ok THEN OpenKeep(FALSE)
               ELSE [OpenKeep(TRUE) EXCEPT !.bytestream = TRUE,
                                           !.extraData = isom_write_avcc(ed).bytes]
          ELSE OpenKeep(FALSE)
     ELSE [OpenKeep(TRUE) EXCEPT !.extraData = ed]

OpenAVC(to_annexb, avio_ok) ==
  LET ed == m_hints.extradata
  IN IF Len(ed) < 7 THEN OpenKeep(FALSE)
     ELSE IF to_annexb
     THEN IF At(ed, 0) = 1
          THEN LET r == BitstreamConvertInitAVC(ed)
               IN [OpenKeep(TRUE) EXCEPT !.extraData = ed, !.bitstream = r.ok,
                                         !.ctx = ContextAfterInit(r)]
          ELSE OpenKeep(FALSE)
     ELSE IF At(ed, 0) # 1
     THEN IF HasStartCode(ed)
          THEN IF ~avio_ok THEN OpenKeep(FALSE)
               ELSE [OpenKeep(TRUE) EXCEPT !.bytestream = TRUE,
                                           !.extraData = isom_write_avcc(ed).bytes]
          ELSE OpenKeep(FALSE)
     ELSE IF At(ed, 4) = 254
     THEN LET patched == [ed EXCEPT ![5] = 255]
          IN [OpenKeep(TRUE) EXCEPT !.nal3to4 = TRUE, !.extraData = patched,
                                    !.extradata = patched]
     ELSE [OpenKeep(TRUE) EXCEPT !.extraData = ed]

(* a variant of the HEVC case of Open that takes every record of 23 bytes  *)
(* or more for an hvcC record                                              *)
OpenHEVCAnyRecord(to_annexb) ==
  LET ed == m_hints.extradata
  IN IF Len(ed) < 23 THEN OpenKeep(FALSE)
     ELSE LET r == BitstreamConvertInitHEVC(ed)
          IN [OpenKeep(TRUE) EXCEPT !.extraData = ed, !.bitstream = r.ok,
                                    !.ctx = ContextAfterInit(r)]

OpenHEVC(to_annexb) ==
  LET ed == m_hints.extradata
  IN IF Len(ed) < 23 THEN OpenKeep(FALSE)
     ELSE IF to_annexb
     THEN IF At(ed, 0) # 0 \/ At(ed, 1) # 0 \/ At(ed, 2) > 1
          THEN LET r == BitstreamConvertInitHEVC(ed)
               IN [OpenKeep(TRUE) EXCEPT !.extraData = ed, !.bitstream = r.ok,
                                         !.ctx = ContextAfterInit(r)]
          ELSE OpenKeep(FALSE)
     ELSE IF At(ed, 0) # 1 THEN OpenKeep(FALSE)
     ELSE IF At(ed, 4) % 4 = 2
     THEN LET patched == [ed EXCEPT ![5] = At(ed, 4) + 1]
          IN [OpenKeep(TRUE) EXCEPT !.nal3to4 = TRUE, !.extraData = patched,
                                    !.extradata = patched]
     ELSE [OpenKeep(TRUE) EXCEPT !.extraData = ed]

(* Open reaches isom_write_avcc at line 546 *)
OpenWritesAvcc(to_annexb, avio_ok) ==
  /\ m_hints.codec = AV_CODEC_ID_H264 /\ ~to_annexb /\ avio_ok
  /\ Len(m_hints.extradata) >= 7
  /\ At(m_hints.extradata, 0) # 1 /\ HasStartCode(m_hints.extradata)

(* Open(hints) where it returns: isom_write_avcc past its assert(0) is the *)
(* build without assertions, which does not return where it reads sps[1]  *)
(* from a null pointer                                                     *)
Open(to_annexb, avio_ok) ==
  \E r \in {IF m_hints.codec = AV_CODEC_ID_H264 THEN OpenAVC(to_annexb, avio_ok)
            ELSE IF m_hints.codec = AV_CODEC_ID_HEVC THEN OpenHEVC(to_annexb)
            ELSE OpenKeep(FALSE)} :
     /\ OpenWritesAvcc(to_annexb, avio_ok) => ~isom_write_avcc(m_hints.extradata).crash
     /\ m_to_annexb' = to_annexb
     /\ m_codec' = m_hints.codec
     /\ m_intial_hdrType' = m_hints.hdrType
     /\ m_convert_bitstream' = r.bitstream
     /\ m_convert_bytestream' = r.bytestream
     /\ m_convert_3byteTo4byteNALSize' = r.nal3to4
     /\ m_extraData' = r.extraData
     /\ m_sps_pps_context' = r.ctx
     /\ m_hints' = [m_hints EXCEPT !.extradata = r.extradata]
     /\ opened' = r.ret
     /\ call' = Call("Open", r.ret, NullPkt, NullPkt)
     /\ m_dataCacheCore' = <<>>
     /\ UNCHANGED <<m_combine, m_start_decode, m_first_frame, flags,
                    m_hdrStaticMetadataInfo, m_convertBuffer, m_inputBuffer>>

(* Open(hints) where it does not return: the assert(0) of line 1651 ends   *)
(* the process, after lines 500-544                                        *)
OpenAbort(to_annexb, avio_ok) ==
  /\ OpenWritesAvcc(to_annexb, avio_ok)
  /\ isom_write_avcc(m_hints.extradata).abort
  /\ m_to_annexb' = to_annexb
  /\ m_codec' = m_hints.codec
  /\ m_intial_hdrType' = m_hints.hdrType
  /\ m_convert_bytestream' = TRUE
  /\ call' = Call("abort", FALSE, NullPkt, NullPkt)
  /\ m_dataCacheCore' = <<>>
  /\ UNCHANGED <<m_hints, m_convert_bitstream, m_convert_3byteTo4byteNALSize,
                 m_extraData, m_sps_pps_context, opened, m_combine, m_start_decode,
                 m_first_frame, flags, m_hdrStaticMetadataInfo, m_convertBuffer,
                 m_inputBuffer>>

(* the process is alive *)
Running == call.op # "abort"

Close ==
  /\ m_sps_pps_context' = [m_sps_pps_context EXCEPT !.sps_pps_data = <<>>]
  /\ m_convertBuffer' = NullBuf
  /\ m_extraData' = <<>>
  /\ m_inputBuffer' = NullBuf
  /\ m_convert_bitstream' = FALSE
  /\ m_convert_bytestream' = FALSE
  /\ m_convert_3byteTo4byteNALSize' = FALSE
  /\ m_combine' = FALSE
  /\ opened' = FALSE
  /\ call' = Call("Close", TRUE, NullPkt, NullPkt)
  /\ m_dataCacheCore' = <<>>
  /\ UNCHANGED <<m_hints, m_codec, m_to_annexb, m_intial_hdrType, m_start_decode,
                 m_first_frame, flags, m_hdrStaticMetadataInfo>>

ResetStartDecode ==
  /\ m_start_decode' = FALSE
  /\ call' = Call("ResetStartDecode", TRUE, NullPkt, NullPkt)
  /\ m_dataCacheCore' = <<>>
  /\ UNCHANGED <<m_hints, modes, m_combine, m_sps_pps_context, m_first_frame, flags,
                 m_hdrStaticMetadataInfo, m_convertBuffer, m_inputBuffer, opened>>

(* Convert(pData, iSize, pts).  guess resolves has_sei_recovery_point where *)
(* it reads past the NAL; avio_ok is whether avio_open_dyn_buf succeeds.   *)
(* av_realloc fails in the calls of BitstreamAllocAndCopy that append the  *)
(* pieces at the positions of lost: the call returns with *poutbuf_size    *)
(* raised and nothing allocated or written (lines 1501-1504), which the    *)
(* piece records as org "noalloc"                                          *)
WithAllocFailures(buf, lost) ==
  [i \in DOMAIN buf |-> IF i \in lost THEN [buf[i] EXCEPT !.org = "noalloc"]
                        ELSE buf[i]]

(* the pieces whose av_realloc succeeded *)
AllocatedPieces(buf) == {i \in DOMAIN buf : buf[i].org # "noalloc"}

(* the size of the memory *poutbuf points to: that of the last av_realloc  *)
(* that succeeded, 0 with *poutbuf still NULL                              *)
AllocatedSize(buf) ==
  IF AllocatedPieces(buf) = {} THEN 0
  ELSE BufSize(SubSeq(buf, 1, CHOOSE i \in AllocatedPieces(buf) :
                                 \A j \in AllocatedPieces(buf) : j <= i))

(* the m_convert_bitstream branch of Convert, lines 693-713, with          *)
(* av_realloc failing at the pieces of lost; out is what BitstreamConvert  *)
(* leaves in bytestream_buff / bytestream_size                             *)
ConvertAnnexBEnd(pkt, r, out) ==
  /\ m_sps_pps_context' = r.c.ctx
  /\ m_start_decode' = r.c.start_decode
  /\ m_hints' = r.c.hints
  /\ m_hdrStaticMetadataInfo' = r.c.hdr
  /\ m_dataCacheCore' = r.c.published
  /\ m_first_frame' = r.first_frame
  /\ m_convertBuffer' = IF AllocatedPieces(out) # {} THEN Buf(out) ELSE NullBuf
  /\ m_inputBuffer' = NullBuf
  /\ call' = Call("Convert", AllocatedPieces(out) # {}, pkt, NullPkt)

ConvertAnnexBLost(pkt, guess, lost) ==
  \E r \in {BitstreamConvert(pkt, guess)} :
     ConvertAnnexBEnd(pkt, r, WithAllocFailures(r.c.buf, lost))

(* the same with every av_realloc succeeding *)
ConvertAnnexB(pkt, guess) == ConvertAnnexBLost(pkt, guess, {})

ConvertPassThrough(pkt) ==
  /\ m_inputBuffer' = Buf(pkt)
  /\ m_convertBuffer' = NullBuf
  /\ call' = Call("Convert", TRUE, pkt, NullPkt)
  /\ m_dataCacheCore' = <<>>
  /\ UNCHANGED <<m_sps_pps_context, m_start_decode, m_hints, m_hdrStaticMetadataInfo,
                 m_first_frame>>

ConvertByteStream(pkt, avio_ok) ==
  /\ m_inputBuffer' = Buf(pkt)
  /\ m_convertBuffer' = IF avio_ok
                        THEN Buf(LengthPrefixed(avc_parse_nal_units(AnnexBBytes(pkt))))
                        ELSE NullBuf
  /\ call' = Call("Convert", avio_ok, pkt, NullPkt)
  /\ m_dataCacheCore' = <<>>
  /\ UNCHANGED <<m_sps_pps_context, m_start_decode, m_hints, m_hdrStaticMetadataInfo,
                 m_first_frame>>

(* The 3-to-4 loop has no bounds check: on a cut packet it copies a last   *)
(* piece from beyond the packet, recorded here with org "oob".             *)
Convert3To4(pkt, avio_ok) ==
  LET pieces == LengthPrefixed(pkt.nals)
      over == [pre |-> <<>>, sc |-> WB32(0), nal |-> <<>>, org |-> "oob",
               idx |-> Len(pkt.nals) + 1]
  IN /\ m_inputBuffer' = Buf(pkt)
     /\ m_convertBuffer' = IF ~avio_ok THEN NullBuf
                           ELSE Buf(IF pkt.trunc THEN Append(pieces, over) ELSE pieces)
     /\ call' = Call("Convert", avio_ok, pkt, NullPkt)
     /\ m_dataCacheCore' = <<>>
     /\ UNCHANGED <<m_sps_pps_context, m_start_decode, m_hints,
                    m_hdrStaticMetadataInfo, m_first_frame>>

ConvertRefuse(pkt) ==
  /\ m_inputBuffer' = NullBuf
  /\ m_convertBuffer' = NullBuf
  /\ call' = Call("Convert", FALSE, pkt, NullPkt)
  /\ m_dataCacheCore' = <<>>
  /\ UNCHANGED <<m_sps_pps_context, m_start_decode, m_hints, m_hdrStaticMetadataInfo,
                 m_first_frame>>

Convert(pkt, guess, avio_ok) ==
  /\ opened
  /\ IF pkt.null \/ m_codec \notin {AV_CODEC_ID_H264, AV_CODEC_ID_HEVC}
     THEN ConvertRefuse(pkt)
     ELSE IF m_to_annexb
     THEN IF m_convert_bitstream THEN ConvertAnnexB(pkt, guess)
          ELSE ConvertPassThrough(pkt)
     ELSE IF m_convert_bytestream THEN ConvertByteStream(pkt, avio_ok)
     ELSE IF m_convert_3byteTo4byteNALSize THEN Convert3To4(pkt, avio_ok)
     ELSE ConvertPassThrough(pkt)
  /\ UNCHANGED <<modes, m_combine, flags, opened>>

(* Convert(pData, iSize, pts) of a converter to Annex-B, with av_realloc   *)
(* failing at the pieces of lost                                           *)
ConvertLost(pkt, guess, lost) ==
  /\ opened /\ ~pkt.null
  /\ m_codec \in {AV_CODEC_ID_H264, AV_CODEC_ID_HEVC}
  /\ m_to_annexb /\ m_convert_bitstream
  /\ ConvertAnnexBLost(pkt, guess, lost)
  /\ UNCHANGED <<modes, m_combine, flags, opened>>

(* Convert(pData_bl, iSize_bl, pData_el, iSize_el, pts) *)
Convert2(bl, el, avio_ok) ==
  /\ opened
  /\ m_inputBuffer' = NullBuf
  /\ IF bl.null \/ el.null
     THEN /\ m_convertBuffer' = NullBuf
          /\ m_first_frame' = FALSE
          /\ call' = Call("Convert2", TRUE, bl, el)
          /\ m_dataCacheCore' = <<>>
          /\ UNCHANGED <<m_hints, m_hdrStaticMetadataInfo, m_combine>>
     ELSE IF ~m_convert_bitstream /\ ~avio_ok
     THEN /\ m_convertBuffer' = NullBuf
          /\ call' = Call("Convert2", FALSE, bl, el)
          /\ m_dataCacheCore' = <<>>
          /\ UNCHANGED <<m_hints, m_hdrStaticMetadataInfo, m_combine, m_first_frame>>
     ELSE \E c \in {ConvertCombine(bl, el)} :
             /\ m_convertBuffer' = IF c.buf = <<>> THEN NullBuf ELSE Buf(c.buf)
             /\ m_hints' = c.hints
             /\ m_hdrStaticMetadataInfo' = c.hdr
             /\ m_dataCacheCore' = c.published
             /\ m_combine' = TRUE
             /\ m_first_frame' = FALSE
             /\ call' = Call("Convert2", TRUE, bl, el)
  /\ UNCHANGED <<modes, m_sps_pps_context, m_start_decode, flags, opened>>

(* the setters of BitstreamConverter.h *)
SetConvertDovi(value) ==
  /\ m_convert_dovi' = value
  /\ call' = Call("SetConvertDovi", TRUE, NullPkt, NullPkt)
  /\ m_dataCacheCore' = <<>>
  /\ UNCHANGED <<m_hints, modes, m_combine, m_sps_pps_context, m_start_decode,
                 m_first_frame, m_removeDovi, m_removeHdr10Plus, m_convert_Hdr10Plus,
                 m_prefer_Hdr10Plus_conversion, m_dual_priority_Hdr10Plus,
                 m_hdrStaticMetadataInfo, m_convertBuffer, m_inputBuffer, opened>>

SetConvertHdr10Plus(value) ==
  /\ m_convert_Hdr10Plus' = value
  /\ call' = Call("SetConvertHdr10Plus", TRUE, NullPkt, NullPkt)
  /\ m_dataCacheCore' = <<>>
  /\ UNCHANGED <<m_hints, modes, m_combine, m_sps_pps_context, m_start_decode,
                 m_first_frame, m_convert_dovi, m_removeDovi, m_removeHdr10Plus,
                 m_prefer_Hdr10Plus_conversion, m_dual_priority_Hdr10Plus,
                 m_hdrStaticMetadataInfo, m_convertBuffer, m_inputBuffer, opened>>

SetPreferCovertHdr10Plus(value) ==
  /\ m_prefer_Hdr10Plus_conversion' = value
  /\ call' = Call("SetPreferCovertHdr10Plus", TRUE, NullPkt, NullPkt)
  /\ m_dataCacheCore' = <<>>
  /\ UNCHANGED <<m_hints, modes, m_combine, m_sps_pps_context, m_start_decode,
                 m_first_frame, m_convert_dovi, m_removeDovi, m_removeHdr10Plus,
                 m_convert_Hdr10Plus, m_dual_priority_Hdr10Plus,
                 m_hdrStaticMetadataInfo, m_convertBuffer, m_inputBuffer, opened>>

SetDualPriorityHdr10Plus(value) ==
  /\ m_dual_priority_Hdr10Plus' = value
  /\ call' = Call("SetDualPriorityHdr10Plus", TRUE, NullPkt, NullPkt)
  /\ m_dataCacheCore' = <<>>
  /\ UNCHANGED <<m_hints, modes, m_combine, m_sps_pps_context, m_start_decode,
                 m_first_frame, m_convert_dovi, m_removeDovi, m_removeHdr10Plus,
                 m_convert_Hdr10Plus, m_prefer_Hdr10Plus_conversion,
                 m_hdrStaticMetadataInfo, m_convertBuffer, m_inputBuffer, opened>>

SetRemoveDovi(value) ==
  /\ m_removeDovi' = value
  /\ call' = Call("SetRemoveDovi", TRUE, NullPkt, NullPkt)
  /\ m_dataCacheCore' = <<>>
  /\ UNCHANGED <<m_hints, modes, m_combine, m_sps_pps_context, m_start_decode,
                 m_first_frame, m_convert_dovi, m_removeHdr10Plus, m_convert_Hdr10Plus,
                 m_prefer_Hdr10Plus_conversion, m_dual_priority_Hdr10Plus,
                 m_hdrStaticMetadataInfo, m_convertBuffer, m_inputBuffer, opened>>

SetRemoveHdr10Plus(value) ==
  /\ m_removeHdr10Plus' = value
  /\ call' = Call("SetRemoveHdr10Plus", TRUE, NullPkt, NullPkt)
  /\ m_dataCacheCore' = <<>>
  /\ UNCHANGED <<m_hints, modes, m_combine, m_sps_pps_context, m_start_decode,
                 m_first_frame, m_convert_dovi, m_removeDovi, m_convert_Hdr10Plus,
                 m_prefer_Hdr10Plus_conversion, m_dual_priority_Hdr10Plus,
                 m_hdrStaticMetadataInfo, m_convertBuffer, m_inputBuffer, opened>>

(* ---------------------------------------------------------------------- *)
(* Inputs                                                                  *)
(* ---------------------------------------------------------------------- *)
(* most NALs in a packet of the life-cycle specification *)
MaxLifeNals == 1
(* most NALs in a packet of the H.264 / HEVC key-frame streams *)
MaxNals == 2
(* most NALs in a single-track packet of the Dolby Vision streams *)
MaxDvNals == 2
(* most NALs in a single-track packet of the HDR10+ streams *)
MaxSeiNals == 2
(* most NALs in each packet of a dual-track call *)
MaxDualNals == 1

SeqsUpTo(A, n) == UNION {[1..k -> A] : k \in 0..n}

(* packets of at most n NALs; a cut packet holds fewer than n whole NALs   *)
Packets(A, n) ==
  {NullPkt} \cup {Pkt(nals, FALSE) : nals \in SeqsUpTo(A, n)}
            \cup {Pkt(nals, TRUE) : nals \in SeqsUpTo(A, n - 1)}

(* the dual-track loops clamp a NAL's length to what is left of the packet *)
DualPackets(A, n) == {NullPkt} \cup {Pkt(nals, FALSE) : nals \in SeqsUpTo(A, n)}

(* has_sei_recovery_point reads past some NAL of the packet *)
ReadsPast(pkt) ==
  /\ m_to_annexb /\ m_convert_bitstream /\ ~m_start_decode
  /\ \E i \in 1..Len(pkt.nals) :
        /\ UnitType(pkt.nals[i]) = (IF m_codec = AV_CODEC_ID_H264 THEN AVC_NAL_SEI
                                    ELSE HEVC_NAL_SEI_PREFIX)
        /\ SeiOf(pkt.nals[i]).recovery = BOOLEAN

Guesses(pkt) == IF ReadsPast(pkt) THEN BOOLEAN ELSE {FALSE}

(* avio_open_dyn_buf is called on the byte-stream and 3-to-4 paths and in  *)
(* the dual-track call of a converter that does not convert to Annex-B     *)
AvioSingle ==
  IF ~m_to_annexb /\ (m_convert_bytestream \/ m_convert_3byteTo4byteNALSize)
  THEN BOOLEAN ELSE {TRUE}

AvioDual == IF m_convert_bitstream THEN {TRUE} ELSE BOOLEAN

AvioOpen(to_annexb) ==
  IF m_hints.codec = AV_CODEC_ID_H264 /\ ~to_annexb /\ Len(m_hints.extradata) >= 7
     /\ At(m_hints.extradata, 0) # 1 /\ HasStartCode(m_hints.extradata)
  THEN BOOLEAN ELSE {TRUE}

LifeHints ==
  {MkHints(AV_CODEC_ID_H264, ed, HDR_TYPE_NONE, dovi_none) :
     ed \in {AvccValid, Avcc3Byte, AvccTruncated, AvcAnnexB, AvccShort}}
  \cup {MkHints(AV_CODEC_ID_HEVC, ed, HDR_TYPE_NONE, dovi_none) :
          ed \in {HvccValid, HevcAnnexB}}
  \cup {MkHints(AV_CODEC_ID_OTHER, AvccValid, HDR_TYPE_NONE, dovi_none)}

IdrHints ==
  {MkHints(AV_CODEC_ID_H264, AvccValid, HDR_TYPE_NONE, dovi_none),
   MkHints(AV_CODEC_ID_HEVC, HvccValid, HDR_TYPE_NONE, dovi_none)}

DvHints ==
  {MkHints(AV_CODEC_ID_HEVC, HvccValid, HDR_TYPE_HDR10PLUS, dovi_none),
   MkHints(AV_CODEC_ID_HEVC, HvccValid, HDR_TYPE_DOLBYVISION, dovi_p7)}

(* records for Open: a record with its first bytes replaced by head and    *)
(* cut to n bytes (no extradata at all when n = 0)                         *)
RecordOf(base, head, n) ==
  [i \in 1..n |-> IF i <= Len(head) THEN head[i] ELSE base[i]]

AvcOpenRecords ==
  {RecordOf(AvccValid, head, n) : head \in {<<1>>, <<0>>, <<2>>},
                                  n \in {0, 6, 7, Len(AvccValid)}}
  \cup {Avcc3Byte, AvccTruncated, AvcAnnexB}

HevcOpenRecords ==
  {RecordOf(HvccValid, head, n) :
     head \in {<<1, 1, 96>>, <<0, 1, 96>>, <<2, 1, 96>>, <<0, 0, 0>>, <<0, 0, 1>>,
               <<0, 0, 2>>},
     n \in {0, 22, 23, Len(HvccValid)}}
  \cup {HevcAnnexB, Hvcc3Byte, HvccByte4}

OpenHints ==
  {MkHints(AV_CODEC_ID_H264, ed, HDR_TYPE_NONE, dovi_none) : ed \in AvcOpenRecords}
  \cup {MkHints(AV_CODEC_ID_HEVC, ed, HDR_TYPE_NONE, dovi_none) : ed \in HevcOpenRecords}

(* most parameter sets in a list of a generated record *)
MaxSets == 2

(* the units of a list of a configuration record, each behind its 16-bit   *)
(* size                                                                    *)
RECURSIVE SizedUnits(_)
SizedUnits(units) ==
  IF units = <<>> THEN <<>>
  ELSE WB16(Len(Head(units))) \o Head(units) \o SizedUnits(Tail(units))

(* an mvcC atom as it follows the PPS list: four bytes that end the avcC   *)
(* record, the atom's size and name, its five header bytes, its SPS and    *)
(* PPS lists; m = <<>> stands for no atom                                  *)
MvccAtom(m) ==
  IF m = <<>> THEN <<>>
  ELSE <<253, 248, 248, 0>> \o <<0, 0, 0, Len(SizedUnits(m.sps \o m.pps)) + 15>>
       \o <<109, 118, 99, 67>> \o <<1, 118, 0, 40, 255>>
       \o <<224 + Len(m.sps)>> \o SizedUnits(m.sps)
       \o <<Len(m.pps)>> \o SizedUnits(m.pps)

(* the avcC record of p = [len_byte, sps, pps, mvc] *)
MkAvcc(p) ==
  <<1, 100, 0, 40, p.len_byte, 224 + Len(p.sps)>> \o SizedUnits(p.sps)
  \o <<Len(p.pps)>> \o SizedUnits(p.pps) \o MvccAtom(p.mvc)

AvccParams ==
  [len_byte : {252, 253, 255},
   sps : SeqsUpTo({<<103, 100>>, <<103, 66, 1>>}, MaxSets),
   pps : SeqsUpTo({<<104>>, <<104, 206>>}, MaxSets),
   mvc : {<<>>, [sps |-> <<<<111, 118>>>>, pps |-> <<<<104, 83>>>>]}]

(* the NAL types of the arrays of a generated hvcC record, in record       *)
(* order: VPS 32, SPS 33, PPS 34, SEI prefix 39, SEI suffix 40             *)
ArrayOrders ==
  {<<>>, <<39>>, <<32, 33, 34>>, <<34, 33, 32>>, <<33, 40, 34>>, <<39, 33, 34>>,
   <<32, 33, 34, 39>>}

(* p = [order, counts]: counts[i] is the number of units of array i *)
HvccParams ==
  UNION {{[order |-> o, counts |-> c] : c \in [1..Len(o) -> 0..MaxSets]} :
           o \in ArrayOrders}

(* the units of array i: unit j holds its NAL header and i, j *)
ArrayUnits(p, i) == [j \in 1..p.counts[i] |-> <<2 * p.order[i], i, j>>]

RECURSIVE HvccArraysFrom(_, _)
HvccArraysFrom(p, i) ==
  IF i > Len(p.order) THEN <<>>
  ELSE <<128 + p.order[i]>> \o WB16(p.counts[i]) \o SizedUnits(ArrayUnits(p, i))
       \o HvccArraysFrom(p, i + 1)

(* the hvcC record of p, with 4-byte NAL lengths *)
MkHvcc(p) == HvccHeader \o <<255, Len(p.order)>> \o HvccArraysFrom(p, 1)

RecordHints ==
  {MkHints(AV_CODEC_ID_H264, MkAvcc(p), HDR_TYPE_NONE, dovi_none) : p \in AvccParams}
  \cup {MkHints(AV_CODEC_ID_HEVC, MkHvcc(p), HDR_TYPE_NONE, dovi_none) :
          p \in HvccParams}

(* most NALs in a generated byte-stream extradata *)
MaxBsNals == 3

(* NALs of byte-stream extradata: SPS of 4, 5 and 2 bytes, two PPS, an     *)
(* access unit delimiter                                                   *)
BsNals ==
  {<<103, 100, 0, 40>>, <<103, 66, 1, 30, 5>>, <<103, 100>>, <<104, 206>>,
   <<104, 1>>, <<9, 16>>}

StartCodeOf(n) == IF n = 4 THEN <<0, 0, 0, 1>> ELSE <<0, 0, 1>>

RECURSIVE BehindStartCodes(_, _)
BehindStartCodes(nals, n) ==
  IF nals = <<>> THEN <<>>
  ELSE StartCodeOf(n) \o Head(nals) \o BehindStartCodes(Tail(nals), n)

(* the byte stream of p = [first, rest, nals]: the first NAL behind a      *)
(* start code of p.first bytes, the others behind one of p.rest bytes      *)
MkByteStream(p) ==
  IF p.nals = <<>> THEN <<>>
  ELSE StartCodeOf(p.first) \o Head(p.nals) \o BehindStartCodes(Tail(p.nals), p.rest)

ByteStreamParams == [first : {3, 4}, rest : {3, 4}, nals : SeqsUpTo(BsNals, MaxBsNals)]

ByteStreamHints ==
  {MkHints(AV_CODEC_ID_H264, MkByteStream(p), HDR_TYPE_NONE, dovi_none) :
     p \in ByteStreamParams}

InitByteStream == \E h \in ByteStreamHints, f, s \in {0, 1} : Construct(h, f, s)

(* the Exp-Golomb codes read are those of the indices below               *)
(* 2^MaxUeBits: every index up to MaxDenseUe and, for each code length,    *)
(* the indices 2^k - 2, 2^k - 1, 2^k and 3 * 2^(k-1) - 1                   *)
MaxUeBits == 20
MaxDenseUe == 300

UeInputs ==
  (0..MaxDenseUe
   \cup UNION {{Pow2(k) - 2, Pow2(k) - 1, Pow2(k), 3 * Pow2(k - 1) - 1} :
                 k \in 1..MaxUeBits})
  \cap (0..(Pow2(MaxUeBits) - 1))

(* the number of bits of v > 0 less one *)
RECURSIVE Log2Floor(_)
Log2Floor(v) == IF v <= 1 THEN 0 ELSE 1 + Log2Floor(v \div 2)

(* the n low bits of v, most significant first *)
RECURSIVE BinaryBits(_, _)
BinaryBits(v, n) ==
  IF n = 0 THEN <<>> ELSE Append(BinaryBits(v \div 2, n - 1), v % 2)

(* the unsigned Exp-Golomb code of i: k zero bits, a 1 bit, k info bits v  *)
(* with 2^k - 1 + v = i                                                    *)
UeBits(i) ==
  LET k == Log2Floor(i + 1)
  IN [j \in 1..k |-> 0] \o <<1>> \o BinaryBits(i + 1 - Pow2(k), k)

(* the bits that fill the last byte: zeros, ones, or a stop bit and zeros  *)
PadBits(pad, n) ==
  [j \in 1..n |-> IF pad = "ones" \/ (pad = "stop" /\ j = 1) THEN 1 ELSE 0]

RECURSIVE BitsToByte(_, _)
BitsToByte(bits, n) ==
  IF n = 0 THEN 0 ELSE 2 * BitsToByte(bits, n - 1) + bits[n]

PackBits(bits) ==
  [b \in 1..(Len(bits) \div 8) |-> BitsToByte(SubSeq(bits, 8 * b - 7, 8 * b), 8)]

(* the buffer that holds the code of i *)
UeCode(i, pad) ==
  LET bits == UeBits(i)
  IN PackBits(bits \o PadBits(pad, (8 - (Len(bits) % 8)) % 8))

UeCodes ==
  {[i |-> i, buf |-> UeCode(i, pad)] :
     i \in UeInputs, pad \in {"zeros", "ones", "stop"}}

(* the bit reader takes nothing from the converter: one instance suffices  *)
InitGolomb ==
  Construct(MkHints(AV_CODEC_ID_H264, AvccValid, HDR_TYPE_NONE, dovi_none), 0, 0)

(* most NALs in a packet of the streams with RPUs that are not converted   *)
MaxRpuNals == 2

(* most NALs in the BL packet of the dual-track streams with end of        *)
(* sequence NALs                                                           *)
MaxBlNals == 2

Init == \E h \in LifeHints, f, s \in {0, 1} : Construct(h, f, s)

InitRecords == \E h \in RecordHints, f, s \in {0, 1} : Construct(h, f, s)

InitOpen == \E h \in OpenHints, f, s \in {0, 1} : Construct(h, f, s)

InitIdr == \E h \in IdrHints, f, s \in {0, 1} : Construct(h, f, s)

InitDv == \E h \in DvHints, f, s \in {0, 1} : Construct(h, f, s)

(* the caller opens a converter that is not open *)
DoOpen ==
  /\ ~opened
  /\ \E to_annexb \in BOOLEAN : \E avio_ok \in AvioOpen(to_annexb) :
        Open(to_annexb, avio_ok)

DoOpenAnnexB == ~opened /\ Open(TRUE, TRUE)

ConvertOver(P) ==
  \E pkt \in P : \E guess \in Guesses(pkt), avio_ok \in AvioSingle :
     Convert(pkt, guess, avio_ok)

Convert2Over(BL, EL) ==
  \E bl \in BL, el \in EL, avio_ok \in AvioDual : Convert2(bl, el, avio_ok)

LifeAvcPackets == Packets({AvcIdr, AvcSlice}, MaxLifeNals)
LifeHevcPackets == Packets({HevcIdr, HevcTrail}, MaxLifeNals)
LifeBlPackets == DualPackets({HevcTrail}, MaxDualNals)
LifeElPackets == DualPackets({RpuP7}, MaxDualNals)

DoConvert ==
  ConvertOver(IF m_codec = AV_CODEC_ID_H264 THEN LifeAvcPackets ELSE LifeHevcPackets)

DoConvert2 == Convert2Over(LifeBlPackets, LifeElPackets)

AvcPackets == Packets(AvcNals, MaxNals)
HevcPackets == Packets(HevcNals, MaxNals)

DoConvertIdr ==
  ConvertOver(IF m_codec = AV_CODEC_ID_H264 THEN AvcPackets ELSE HevcPackets)

DvPackets == Packets(DvNals, MaxDvNals)
DvBlPackets == DualPackets({ElNal}, MaxDualNals)
DvElPackets == DualPackets({RpuP7}, MaxDualNals)

DoConvertDv == ConvertOver(DvPackets)

DoConvert2Dv == Convert2Over(DvBlPackets, DvElPackets)

SeiPackets == Packets(SeiNals, MaxSeiNals)
SeiBlPackets == DualPackets({SeiCllHdr10Plus}, MaxDualNals)
SeiElPackets == DualPackets({RpuP7}, MaxDualNals)

DoConvertSei == ConvertOver(SeiPackets)

DoConvert2Sei == Convert2Over(SeiBlPackets, SeiElPackets)

(* the caller configures the converter between construction and Open *)
Configuring ==
  call.op \in {"new", "SetConvertDovi", "SetConvertHdr10Plus",
               "SetPreferCovertHdr10Plus", "SetDualPriorityHdr10Plus",
               "SetRemoveDovi", "SetRemoveHdr10Plus"}

DoSetConvertDovi ==
  Configuring /\ \E v \in DOVIMode \ {m_convert_dovi} : SetConvertDovi(v)

DoSetRemoveDovi == Configuring /\ ~m_removeDovi /\ SetRemoveDovi(TRUE)

DoSetConvertHdr10Plus == Configuring /\ ~m_convert_Hdr10Plus /\ SetConvertHdr10Plus(TRUE)

DoSetPreferCovertHdr10Plus ==
  Configuring /\ ~m_prefer_Hdr10Plus_conversion /\ SetPreferCovertHdr10Plus(TRUE)

DoSetDualPriorityHdr10Plus ==
  Configuring /\ ~m_dual_priority_Hdr10Plus /\ SetDualPriorityHdr10Plus(TRUE)

DoSetRemoveHdr10Plus == Configuring /\ ~m_removeHdr10Plus /\ SetRemoveHdr10Plus(TRUE)

(* av_realloc may fail in any of the calls that append a NAL *)
DoConvertLost ==
  \E pkt \in (IF m_codec = AV_CODEC_ID_H264 THEN AvcPackets ELSE HevcPackets) :
     \E guess \in Guesses(pkt), lost \in SUBSET (1..MaxNals) :
        ConvertLost(pkt, guess, lost)

(* the life cycle of a converter, on every path of Open and Convert *)
Next == DoOpen \/ Close \/ ResetStartDecode \/ DoConvert \/ DoConvert2

Spec == Init /\ [][Next]_vars

(* key frames and decode start in the conversion to Annex-B *)
NextIdr == DoOpenAnnexB \/ ResetStartDecode \/ DoConvertIdr

SpecIdr == InitIdr /\ [][NextIdr]_vars

(* Open on the records a demuxer may hand over, well-formed or not *)
NextOpen == DoOpen \/ Close \/ DoConvert

SpecOpen == InitOpen /\ [][NextOpen]_vars

(* Open(to_annexb = true) on well-formed configuration records *)
NextRecords == DoOpenAnnexB \/ Close

SpecRecords == InitRecords /\ [][NextRecords]_vars

(* the conversion to Annex-B when memory runs out *)
NextAlloc == DoOpenAnnexB \/ ResetStartDecode \/ DoConvertLost

SpecAlloc == InitIdr /\ [][NextAlloc]_vars

(* the caller opens a converter for a decoder that takes AVCC, with        *)
(* avio_open_dyn_buf succeeding                                            *)
DoOpenByteStream == Running /\ ~opened /\ Open(FALSE, TRUE)

DoOpenAbort == Running /\ ~opened /\ OpenAbort(FALSE, TRUE)

DoClose == Running /\ Close

NextByteStream == DoOpenByteStream \/ DoOpenAbort \/ DoClose

SpecByteStream == InitByteStream /\ [][NextByteStream]_vars

(* nal_bs_read_ue / nal_bs_read_se on a reader set up by nal_bs_init on a  *)
(* buffer that holds a code; call.pkt holds the buffer as its one NAL      *)
ReadUe ==
  \E c \in UeCodes : \E r \in {nal_bs_read_ue(c.buf, nal_bs_init)} :
     /\ call' = Call("nal_bs_read_ue", r.res, Pkt(<<c.buf>>, FALSE), NullPkt)
     /\ m_dataCacheCore' = <<>>
     /\ UNCHANGED <<m_hints, modes, m_combine, m_sps_pps_context, m_start_decode,
                    m_first_frame, flags, m_hdrStaticMetadataInfo, m_convertBuffer,
                    m_inputBuffer, opened>>

ReadSe ==
  \E c \in UeCodes : \E r \in {nal_bs_read_se(c.buf, nal_bs_init)} :
     /\ call' = Call("nal_bs_read_se", r.res, Pkt(<<c.buf>>, FALSE), NullPkt)
     /\ m_dataCacheCore' = <<>>
     /\ UNCHANGED <<m_hints, modes, m_combine, m_sps_pps_context, m_start_decode,
                    m_first_frame, flags, m_hdrStaticMetadataInfo, m_convertBuffer,
                    m_inputBuffer, opened>>

NextGolomb == ReadUe \/ ReadSe

SpecGolomb == InitGolomb /\ [][NextGolomb]_vars

RpuPackets == Packets(RpuNals, MaxRpuNals)

DoConvertRpu == ConvertOver(RpuPackets)

NextRpu ==
  \/ DoSetConvertDovi \/ DoSetRemoveDovi \/ DoSetConvertHdr10Plus
  \/ DoOpenAnnexB \/ DoConvertRpu

SpecRpu == InitDv /\ [][NextRpu]_vars

DualBlPackets == DualPackets(DualBlNals, MaxBlNals)
DualElPackets == DualPackets(DualElNals, MaxDualNals)

DoConvert2Dual == Convert2Over(DualBlPackets, DualElPackets)

NextDual ==
  \/ DoSetConvertDovi \/ DoSetRemoveDovi \/ DoSetConvertHdr10Plus
  \/ DoOpenAnnexB \/ DoConvert2Dual

SpecDual == InitDv /\ [][NextDual]_vars

IdrBlPackets == DualPackets({HevcSps, HevcIdr, HevcTrail}, MaxBlNals)

DoConvert2Idr == Convert2Over(IdrBlPackets, LifeElPackets)

NextDualIdr == DoOpenAnnexB \/ ResetStartDecode \/ DoConvert2Idr

SpecDualIdr == InitIdr /\ [][NextDualIdr]_vars

(* Dolby Vision handling *)
NextDv ==
  \/ DoSetConvertDovi \/ DoSetRemoveDovi \/ DoSetConvertHdr10Plus
  \/ DoOpenAnnexB \/ DoConvertDv \/ DoConvert2Dv

SpecDv == InitDv /\ [][NextDv]_vars

(* HDR10+ handling *)
NextSei ==
  \/ DoSetConvertHdr10Plus \/ DoSetPreferCovertHdr10Plus \/ DoSetDualPriorityHdr10Plus
  \/ DoSetRemoveHdr10Plus
  \/ DoOpenAnnexB \/ DoConvertSei \/ DoConvert2Sei

SpecSei == InitDv /\ [][NextSei]_vars

(* ---------------------------------------------------------------------- *)
(* Properties                                                              *)
(* ---------------------------------------------------------------------- *)
Converts == {"Convert", "Convert2"}

(* the last call was a single-track Convert that converted to Annex-B and  *)
(* returned true: m_convertBuffer holds the emitted access unit            *)
EmittedAnnexB ==
  call.op = "Convert" /\ call.ret /\ m_to_annexb /\ m_convert_bitstream

IsParameterSet(nal) ==
  UnitType(nal) \in (IF m_codec = AV_CODEC_ID_H264 THEN {AVC_NAL_SPS, AVC_NAL_PPS}
                     ELSE {HEVC_NAL_SPS, HEVC_NAL_PPS})

HasIdr(out) == \E i \in DOMAIN out : IsIDR(UnitType(out[i].nal))

HasInBandParameterSet(out) == \E i \in DOMAIN out : IsParameterSet(out[i].nal)

HasPrologue(out) == \E i \in DOMAIN out : out[i].pre # <<>>

(* C1: in the conversion to Annex-B every emitted access unit that holds   *)
(* an IDR NAL also holds SPS/PPS, in-band or as the prepended prologue.    *)
C1_IdrHasParameterSets ==
  EmittedAnnexB /\ HasIdr(m_convertBuffer.data)
    => HasInBandParameterSet(m_convertBuffer.data) \/ HasPrologue(m_convertBuffer.data)

(* C2: the prologue is prepended only to an access unit that carries no    *)
(* in-band SPS/PPS, wherever in the packet they are: never both.           *)
C2_PrologueOrInBand ==
  EmittedAnnexB
    => ~(HasPrologue(m_convertBuffer.data)
         /\ HasInBandParameterSet(m_convertBuffer.data))

(* C3: once CanStartDecode() is true no Convert call, of either overload,  *)
(* returning true or false, makes it false.                                *)
C3_StartDecodeLatched ==
  [][(call'.op \in Converts /\ CanStartDecode) => CanStartDecode']_vars

(* a failed Convert of a converter that may start decoding *)
C3_Witness ==
  call.op = "Convert" /\ ~call.ret /\ ~call.pkt.null /\ m_convert_bitstream
  /\ CanStartDecode

(* the NAL carries a recovery-point message (payload type 6), read behind  *)
(* the NAL header of its codec                                             *)
CarriesRecoveryPoint(nal) ==
  IF m_codec = AV_CODEC_ID_H264
  THEN UnitType(nal) = AVC_NAL_SEI /\ TRUE \in SeiRecoveryFrom(nal, 1)
  ELSE UnitType(nal) = HEVC_NAL_SEI_PREFIX /\ TRUE \in SeiRecoveryFrom(nal, 2)

StartsDecode(nal) ==
  \/ UnitType(nal) = (IF m_codec = AV_CODEC_ID_H264 THEN AVC_NAL_SPS ELSE HEVC_NAL_SPS)
  \/ IsIDR(UnitType(nal))
  \/ CarriesRecoveryPoint(nal)

(* C4: with decode start cleared, a single-track Convert to Annex-B sets   *)
(* it iff some NAL of the packet is an SPS, an IDR or a SEI with a         *)
(* recovery-point message; otherwise it stays cleared.                     *)
C4_StartDecodeIff ==
  [][(call'.op = "Convert" /\ ~call'.pkt.null /\ m_to_annexb /\ m_convert_bitstream
      /\ ~CanStartDecode)
     => (CanStartDecode'
         <=> \E i \in DOMAIN call'.pkt.nals : StartsDecode(call'.pkt.nals[i]))]_vars

C6_FirstFrameOnlyFirstCall == call.op \in Converts => ~m_first_frame

(* BitstreamConvert went through the whole packet *)
Parsed(pkt) == ~pkt.null /\ ~pkt.trunc /\ pkt.nals # <<>>

(* C6: the first-frame flag becomes false at the end of every dual-track   *)
(* Convert that returns true and of every single-track Convert whose       *)
(* BitstreamConvert goes through the whole packet; every other call leaves *)
(* it as it was, and nothing sets it back to true.                         *)
C6_FirstFrameLatch ==
  [][m_first_frame' =
       (m_first_frame
        /\ ~(call'.op = "Convert2" /\ call'.ret)
        /\ ~(call'.op = "Convert" /\ m_to_annexb /\ m_convert_bitstream
             /\ Parsed(call'.pkt)))]_vars

(* a Convert that passed the packet through and left the flag set *)
C6_Witness ==
  call.op = "Convert" /\ call.ret /\ ~m_to_annexb /\ m_first_frame

(* C7: after any Convert call made with remove_dovi set or with the      *)
(* conversion mode TO_81, hints.dovi.el_present_flag is false.             *)
C7_ElPresentCleared ==
  call.op \in Converts /\ (m_removeDovi \/ m_convert_dovi = MODE_TO81)
    => m_hints.dovi.el_present_flag = 0

(* the type of an emitted NAL: 63 behind the 5-byte EL header, else the    *)
(* type in its own header                                                  *)
PieceType(p) == IF Len(p.sc) = 5 THEN HEVC_NAL_UNSPEC63 ELSE HevcType(p.nal)

(* the last call was a Convert, of either overload, that returned true and *)
(* left the access unit in m_convertBuffer                                 *)
EmittedConverted == call.op \in Converts /\ call.ret /\ UsesConvertBuffer

CarriesHdr10Plus(nal) ==
  ExtractHdr10Plus(ParseSeiRbspUnclearedEmulation(nal)).has

NoHdr10PlusEmitted ==
  \A i \in DOMAIN m_convertBuffer.data :
     PieceType(m_convertBuffer.data[i]) = HEVC_NAL_SEI_PREFIX
       => ~CarriesHdr10Plus(m_convertBuffer.data[i].nal)

(* C9 as the specification states it: with remove_hdr10plus set or         *)
(* convert_hdr10plus enabled no emitted SEI prefix NAL carries an HDR10+   *)
(* message, for every combination of the other flags and source type.      *)
C9_Hdr10PlusStripped ==
  EmittedConverted /\ (m_removeHdr10Plus \/ m_convert_Hdr10Plus)
    => NoHdr10PlusEmitted

(* the stream is taken as HDR10+ and its metadata converted *)
ConvertsHdr10Plus ==
  /\ m_convert_Hdr10Plus /\ ~m_dual_priority_Hdr10Plus
  /\ (m_intial_hdrType # HDR_TYPE_DOLBYVISION \/ m_prefer_Hdr10Plus_conversion)

(* the messages other than HDR10+ of the SEI NALs of a packet, in order *)
RECURSIVE KeptMessages(_)
KeptMessages(nals) ==
  IF nals = <<>> THEN <<>>
  ELSE (IF HevcType(Head(nals)) = HEVC_NAL_SEI_PREFIX
        THEN LET messages == ParseSeiRbspUnclearedEmulation(Head(nals))
             IN SelectSeq(messages, LAMBDA m : ~IsHdr10PlusMessage(m))
        ELSE <<>>) \o KeptMessages(Tail(nals))

(* the messages of the SEI NALs of an emitted access unit, in order *)
RECURSIVE EmittedMessages(_)
EmittedMessages(out) ==
  IF out = <<>> THEN <<>>
  ELSE (IF PieceType(Head(out)) = HEVC_NAL_SEI_PREFIX
        THEN ParseSeiRbspUnclearedEmulation(Head(out).nal) ELSE <<>>)
       \o EmittedMessages(Tail(out))

(* C9: with remove_hdr10plus set, or with convert_hdr10plus enabled,       *)
(* dual_priority clear and a source that is not Dolby Vision or prefer     *)
(* set, no emitted SEI prefix NAL carries an HDR10+ message; the other     *)
(* messages are kept in order and a SEI NAL left empty is omitted.         *)
C9_Hdr10PlusStrippedWhenConverted ==
  EmittedConverted /\ (m_removeHdr10Plus \/ ConvertsHdr10Plus)
    => /\ NoHdr10PlusEmitted
       /\ EmittedMessages(m_convertBuffer.data) = KeptMessages(call.pkt.nals)
       /\ \A i \in DOMAIN m_convertBuffer.data :
             PieceType(m_convertBuffer.data[i]) = HEVC_NAL_SEI_PREFIX
               => ParseSeiRbspUnclearedEmulation(m_convertBuffer.data[i].nal) # <<>>

(* a SEI NAL with content light level and HDR10+ converted with            *)
(* remove_hdr10plus set: the content light level message is emitted        *)
C9_Witness ==
  /\ EmittedConverted /\ m_removeHdr10Plus
  /\ \E i \in DOMAIN call.pkt.nals : call.pkt.nals[i] = SeiCllHdr10Plus
  /\ EmittedMessages(m_convertBuffer.data) # <<>>

(* the places in the input packet of the emitted NALs that stand for an   *)
(* input NAL, in output order                                              *)
RECURSIVE InputPlaces(_)
InputPlaces(out) ==
  IF out = <<>> THEN <<>>
  ELSE (IF Head(out).org = "rpu_synth" THEN <<>> ELSE <<Head(out).idx>>)
       \o InputPlaces(Tail(out))

Increasing(places) ==
  \A i, j \in DOMAIN places : i < j => places[i] < places[j]

(* an emitted NAL is an input NAL, or one of the edits: a SEI NAL with the *)
(* HDR10+ message stripped, a converted RPU, a synthesized RPU at the end  *)
AllowedPiece(out, i, in) ==
  LET p == out[i]
  IN /\ p.org \in {"in", "sei", "rpu_conv", "rpu_synth"}
     /\ p.org = "in" => p.idx \in DOMAIN in /\ p.nal = in[p.idx]
     /\ p.org = "sei" => /\ p.idx \in DOMAIN in
                         /\ HevcType(in[p.idx]) = HEVC_NAL_SEI_PREFIX
                         /\ HevcType(p.nal) = HEVC_NAL_SEI_PREFIX
     /\ p.org = "rpu_conv" => /\ p.idx \in DOMAIN in
                              /\ HevcType(in[p.idx]) = HEVC_NAL_UNSPEC62
                              /\ HevcType(p.nal) = HEVC_NAL_UNSPEC62
     /\ p.org = "rpu_synth" => i = Len(out) /\ HevcType(p.nal) = HEVC_NAL_UNSPEC62
     /\ p.pre # <<>> => p.pre = m_sps_pps_context.sps_pps_data /\ IsIDR(HevcType(p.nal))

(* C10: the NALs emitted by a successful single-track conversion to        *)
(* Annex-B are the input NALs in their order, but for the prologue in      *)
(* front of an IDR, the rewritten or dropped SEI, the converted, dropped   *)
(* or appended RPU and the dropped EL: no other NAL is dropped, repeated,  *)
(* reordered or changed.                                                   *)
C10_OrderPreserved ==
  EmittedAnnexB
    => LET out == m_convertBuffer.data
           in == call.pkt.nals
       IN /\ \A i \in DOMAIN out : AllowedPiece(out, i, in)
          /\ Increasing(InputPlaces(out))
          /\ \A k \in DOMAIN in :
                HevcType(in[k]) \notin {HEVC_NAL_SEI_PREFIX, HEVC_NAL_UNSPEC62,
                                        HEVC_NAL_UNSPEC63}
                  => \E i \in DOMAIN out : out[i].org = "in" /\ out[i].idx = k

(* a packet of two NALs emitted whole, the prologue in front of its IDR *)
C10_Witness ==
  /\ EmittedAnnexB /\ Len(call.pkt.nals) = 2 /\ Len(m_convertBuffer.data) = 2
  /\ HasPrologue(m_convertBuffer.data)

(* ---------------------------------------------------------------------- *)
(* Start codes of the emitted access unit                                  *)
(* ---------------------------------------------------------------------- *)
(* the offsets q of b at which 00 00 01 stands *)
StartCodes(b) ==
  {q \in 0..(Len(b) - 3) : At(b, q) = 0 /\ At(b, q + 1) = 0 /\ At(b, q + 2) = 1}

(* the start code at q is the 4-byte one when a zero byte stands before it *)
StartCodeLen(b, q) == IF q > 0 /\ At(b, q - 1) = 0 THEN 4 ELSE 3

(* the NAL behind the start code at q is a DV RPU NAL *)
IsRpuAt(b, q) == InBuf(b, q + 3) /\ HevcType(<<At(b, q + 3)>>) = HEVC_NAL_UNSPEC62

(* the first start code of b is the 4-byte one, every later one the 3-byte *)
(* one unless its NAL is of type 62                                        *)
StartCodesAsClaimed(b) ==
  \A q \in StartCodes(b) :
     StartCodeLen(b, q) = (IF q <= 1 \/ IsRpuAt(b, q) THEN 4 ELSE 3)

(* C11 as stated: in every access unit emitted by the single-track         *)
(* conversion to Annex-B the first NAL is behind the 4-byte start code and *)
(* every later NAL behind the 3-byte one, except NALs of type 62; so an    *)
(* IDR with the prologue reads <4><SPS><3><PPS><3><IDR>.                   *)
C11_StartCodes ==
  EmittedAnnexB => StartCodesAsClaimed(BufBytes(m_convertBuffer.data))

(* C11, amended: the first NAL copied from the packet is behind the 4-byte *)
(* start code and every later one behind the 3-byte one, except NALs of    *)
(* type 62, which get the 4-byte one; the prologue is copied in front of   *)
(* the IDR's start code as Open built it, every parameter set of it behind *)
(* a 4-byte start code.                                                    *)
C11_StartCodesOfCopiedNals ==
  EmittedAnnexB =>
    \A i \in DOMAIN m_convertBuffer.data :
       /\ m_convertBuffer.data[i].sc
            = (IF i = 1 \/ UnitType(m_convertBuffer.data[i].nal) = HEVC_NAL_UNSPEC62
               THEN <<0, 0, 0, 1>> ELSE <<0, 0, 1>>)
       /\ m_convertBuffer.data[i].pre \in {<<>>, m_sps_pps_context.sps_pps_data}
       /\ \A q \in StartCodes(m_convertBuffer.data[i].pre) :
             StartCodeLen(m_convertBuffer.data[i].pre, q) = 4

(* an access unit that starts with the prologue and an IDR and goes on     *)
(* with a NAL behind a 3-byte start code                                   *)
C11_Witness ==
  /\ EmittedAnnexB
  /\ Len(m_convertBuffer.data) = 2
  /\ m_convertBuffer.data[1].pre # <<>>
  /\ m_convertBuffer.data[2].sc = <<0, 0, 1>>

(* ---------------------------------------------------------------------- *)
(* Truncated packets                                                       *)
(* ---------------------------------------------------------------------- *)
(* the last call was a single-track conversion to Annex-B of a packet in   *)
(* which a NAL's length field or declared length runs past the packet      *)
ConvertedTruncated ==
  /\ call.op = "Convert" /\ m_to_annexb /\ m_convert_bitstream
  /\ m_codec \in {AV_CODEC_ID_H264, AV_CODEC_ID_HEVC}
  /\ ~call.pkt.null /\ call.pkt.trunc

(* the last call was a single-track conversion of a well-formed packet *)
ConvertedWellFormed ==
  /\ call.op = "Convert"
  /\ ~call.pkt.null /\ ~call.pkt.trunc /\ call.pkt.nals # <<>>

(* the call returned false and exposes no output *)
FailedWithoutOutput == ~call.ret /\ GetConvertBuffer.null /\ GetConvertSize = 0

(* the NALs the switch of BitstreamConvert may drop or rewrite *)
MayBeDropped(nal) ==
  UnitType(nal) \in {HEVC_NAL_SEI_PREFIX, HEVC_NAL_UNSPEC62, HEVC_NAL_UNSPEC63}

(* C12 as stated: a conversion to Annex-B of a truncated packet returns    *)
(* false and exposes no output, and a following Convert on a well-formed   *)
(* packet succeeds.                                                        *)
C12_TruncatedPacket ==
  [][/\ ConvertedTruncated' => FailedWithoutOutput'
     /\ ConvertedTruncated /\ ConvertedWellFormed' => call'.ret]_vars

(* C12, amended: a conversion to Annex-B of a truncated packet returns     *)
(* false and exposes no output, and a following Convert on a well-formed   *)
(* packet succeeds when the packet holds a NAL other than an SEI prefix, a *)
(* DV RPU (62) or a DV EL (63) NAL.                                        *)
C12_TruncatedPacketThenKeptNal ==
  [][/\ ConvertedTruncated' => FailedWithoutOutput'
     /\ ConvertedTruncated /\ ConvertedWellFormed'
          /\ (\E i \in DOMAIN call'.pkt.nals : ~MayBeDropped(call'.pkt.nals[i]))
        => call'.ret]_vars

(* a packet cut after a NAL that was already written to the output has     *)
(* been refused                                                            *)
C12_Witness ==
  ConvertedTruncated /\ call.pkt.nals # <<>> /\ FailedWithoutOutput

(* ---------------------------------------------------------------------- *)
(* Allocation failures                                                     *)
(* ---------------------------------------------------------------------- *)
(* growing the buffer failed for some NAL of the last Convert *)
AllocationFailed ==
  call.op = "Convert" /\ \E i \in DOMAIN m_convertBuffer.data :
                             m_convertBuffer.data[i].org = "noalloc"

(* C13: a Convert in which growing the output buffer fails for a NAL       *)
(* returns false and exposes no output, and no Convert reports success     *)
(* with a size larger than the buffer that was allocated.                  *)
C13_AllocationFailure ==
  /\ AllocationFailed => ~call.ret /\ GetConvertBuffer.null /\ GetConvertSize = 0
  /\ call.op = "Convert" /\ call.ret
       => GetConvertSize <= AllocatedSize(m_convertBuffer.data)

(* ---------------------------------------------------------------------- *)
(* Open and the configuration record                                       *)
(* ---------------------------------------------------------------------- *)
(* the last call was Open(to_annexb = true) of an H.264 or HEVC stream *)
OpenedToAnnexB ==
  call.op = "Open" /\ m_to_annexb /\ m_codec \in {AV_CODEC_ID_H264, AV_CODEC_ID_HEVC}

MinRecordSize == IF m_codec = AV_CODEC_ID_H264 THEN 7 ELSE 23

(* C14 as stated: Open(to_annexb = true) returns true only if the record   *)
(* is present, is at least 7 (AVC) or 23 (HEVC) bytes long and its byte 0  *)
(* is 1; it fails for every other record.                                  *)
C14_OpenOnlyVersion1 ==
  OpenedToAnnexB /\ call.ret
    => Len(m_hints.extradata) >= MinRecordSize /\ At(m_hints.extradata, 0) = 1

(* C14, amended: Open(to_annexb = true) returns true only if the record is *)
(* present and at least 7 (AVC) or 23 (HEVC) bytes long and, for AVC, its  *)
(* byte 0 is 1, for HEVC, its byte 0 or byte 1 is not 0 or its byte 2 is   *)
(* larger than 1; it fails for every other record.                         *)
C14_OpenOnlyRecognisedRecord ==
  OpenedToAnnexB /\ call.ret
    => /\ Len(m_hints.extradata) >= MinRecordSize
       /\ IF m_codec = AV_CODEC_ID_H264 THEN At(m_hints.extradata, 0) = 1
          ELSE \/ At(m_hints.extradata, 0) # 0
               \/ At(m_hints.extradata, 1) # 0
               \/ At(m_hints.extradata, 2) > 1

(* Open has taken an HEVC record whose version byte is not 1 *)
C14_Witness ==
  /\ OpenedToAnnexB /\ call.ret /\ m_codec = AV_CODEC_ID_HEVC
  /\ At(m_hints.extradata, 0) # 1

(* ---------------------------------------------------------------------- *)
(* The size of the NAL length field                                        *)
(* ---------------------------------------------------------------------- *)
(* the offset of the byte of the record that holds lengthSizeMinusOne *)
LengthByte == IF m_codec = AV_CODEC_ID_H264 THEN 4 ELSE 21

(* the size of the length field in front of the NALs of the packets that   *)
(* Convert iterates (conversion to Annex-B) or that the converter exposes  *)
(* with its extradata (the other paths)                                    *)
LengthSizeInEffect ==
  IF m_to_annexb /\ m_convert_bitstream THEN m_sps_pps_context.length_size
  ELSE IF m_to_annexb THEN (At(m_hints.extradata, LengthByte) % 4) + 1
  ELSE (At(m_extraData, LengthByte) % 4) + 1

(* C15 as stated: after a successful Open, for both values of to_annexb    *)
(* and both codecs, the length-field size in effect during Convert is 1, 2 *)
(* or 4, never 3.                                                          *)
C15_LengthSizeNever3 ==
  call.op = "Convert" /\ call.ret /\ m_codec \in {AV_CODEC_ID_H264, AV_CODEC_ID_HEVC}
    => LengthSizeInEffect \in {1, 2, 4}

(* C15, amended: a successful Open(to_annexb = false) patches the length   *)
(* byte of the record to 4 and raises m_convert_3byteTo4byteNALSize        *)
(* exactly when byte 0 of the record is 1 and its byte 4 is 0xFE (AVC) or  *)
(* has 2 in its low two bits (HEVC); a successful Open(to_annexb = true)   *)
(* patches nothing and takes the length-field size 1..4 that byte 4 (AVC)  *)
(* or byte 21 (HEVC) of the record signals, 3 included.                    *)
C15_LengthSizeAfterOpen ==
  [][call'.op = "Open" /\ call'.ret
     => IF m_to_annexb'
        THEN /\ ~m_convert_3byteTo4byteNALSize'
             /\ m_hints'.extradata = m_hints.extradata
             /\ m_sps_pps_context'.length_size
                  = (At(m_hints.extradata, LengthByte') % 4) + 1
        ELSE /\ m_convert_3byteTo4byteNALSize'
                  = /\ At(m_hints.extradata, 0) = 1
                    /\ IF m_codec' = AV_CODEC_ID_H264
                       THEN At(m_hints.extradata, 4) = 254
                       ELSE At(m_hints.extradata, 4) % 4 = 2
             /\ m_convert_3byteTo4byteNALSize'
                  => /\ At(m_extraData', 4) % 4 = 3
                     /\ m_hints'.extradata = m_extraData']_vars

(* a conversion to Annex-B that iterated its packet with a 3-byte length   *)
(* field                                                                   *)
C15_Witness ==
  /\ call.op = "Convert" /\ call.ret /\ m_to_annexb /\ m_convert_bitstream
  /\ m_sps_pps_context.length_size = 3

(* ---------------------------------------------------------------------- *)
(* The prologue built from the configuration record                        *)
(* ---------------------------------------------------------------------- *)
(* the units, each behind 00 00 00 01 *)
RECURSIVE Framed(_)
Framed(units) ==
  IF units = <<>> THEN <<>>
  ELSE <<0, 0, 0, 1>> \o Head(units) \o Framed(Tail(units))

RECURSIVE TotalSize(_)
TotalSize(units) ==
  IF units = <<>> THEN 0 ELSE Len(Head(units)) + 4 + TotalSize(Tail(units))

(* the parameter sets of the avcC record of p, in record order *)
AvccSets(p) ==
  p.sps \o p.pps \o (IF p.mvc = <<>> THEN <<>> ELSE p.mvc.sps \o p.mvc.pps)

RECURSIVE HvccSetsFrom(_, _)
HvccSetsFrom(p, i) ==
  IF i > Len(p.order) THEN <<>>
  ELSE (IF p.order[i] \in {32, 33, 34} THEN ArrayUnits(p, i) ELSE <<>>)
       \o HvccSetsFrom(p, i + 1)

(* C17: for every valid hvcC record, the prologue built by                 *)
(* Open(to_annexb = true) holds exactly the NALs of the arrays of type VPS *)
(* (32), SPS (33) and PPS (34), each behind 00 00 00 01, in the order of   *)
(* the arrays and of their NALs; the NALs of the other arrays contribute   *)
(* no byte.                                                                *)
C17_HvccPrologue ==
  call.op = "Open" /\ m_codec = AV_CODEC_ID_HEVC
    => \A p \in HvccParams :
          MkHvcc(p) = m_hints.extradata
            => /\ call.ret /\ m_convert_bitstream
               /\ GetExtraData = Framed(HvccSetsFrom(p, 1))

(* Open has built the prologue of a record with an array of SEI NALs       *)
(* between its SPS and PPS arrays                                          *)
C17_Witness ==
  /\ call.op = "Open" /\ call.ret /\ m_codec = AV_CODEC_ID_HEVC
  /\ \E p \in HvccParams :
        /\ MkHvcc(p) = m_hints.extradata
        /\ p.order = <<33, 40, 34>> /\ \A i \in 1..3 : p.counts[i] = 2
        /\ GetExtraData = Framed(HvccSetsFrom(p, 1))
        /\ Len(GetExtraData) = 28

(* ---------------------------------------------------------------------- *)
(* C18: for AVC with to_annexb = false and extradata of at least 7 bytes   *)
(* that begins with a start code, Open succeeds and the extradata exposed  *)
(* afterwards is the record 1, sps[1], sps[2], sps[3], 0xff, 0xe1, the     *)
(* SPS behind its 16-bit length, 1, the PPS behind its 16-bit length, of   *)
(* an SPS and a PPS of the byte stream.                                    *)
(* ---------------------------------------------------------------------- *)
(* Open was called for such extradata *)
ByteStreamOpen ==
  /\ call.op \in {"Open", "abort"}
  /\ m_codec = AV_CODEC_ID_H264 /\ ~m_to_annexb
  /\ Len(m_hints.extradata) >= 7 /\ HasStartCode(m_hints.extradata)

(* the record the claim describes *)
AvccOf(sps, pps) ==
  <<1, At(sps, 1), At(sps, 2), At(sps, 3), 255, 225>> \o WB16(Len(sps)) \o sps
  \o <<1>> \o WB16(Len(pps)) \o pps

C18_ByteStreamRecord ==
  ByteStreamOpen =>
    /\ call.op = "Open" /\ call.ret
    /\ \A p \in ByteStreamParams :
          MkByteStream(p) = m_hints.extradata =>
            \E i, j \in 1..Len(p.nals) :
               /\ p.nals[i][1] % 32 = 7 /\ Len(p.nals[i]) >= 4
               /\ p.nals[j][1] % 32 = 8
               /\ GetExtraData = AvccOf(p.nals[i], p.nals[j])

(* ---------------------------------------------------------------------- *)
(* C19: for every index 0 <= i < 2^20, nal_bs_read_ue reading from the     *)
(* start of a buffer that holds the unsigned Exp-Golomb code of i returns  *)
(* i, and nal_bs_read_se returns (i+1)/2, positive for odd i and negative  *)
(* for even i.                                                             *)
(* ---------------------------------------------------------------------- *)
SeOf(i) == IF i % 2 = 1 THEN (i + 1) \div 2 ELSE -((i + 1) \div 2)

C19_ExpGolombRoundTrip ==
  \A c \in UeCodes :
     /\ (call.op = "nal_bs_read_ue" /\ call.pkt.nals = <<c.buf>>) => call.ret = c.i
     /\ (call.op = "nal_bs_read_se" /\ call.pkt.nals = <<c.buf>>)
          => call.ret = SeOf(c.i)

(* the longest code, of 41 bits over two zero bytes, was read as a signed  *)
(* value                                                                   *)
C19_Witness ==
  /\ call.op = "nal_bs_read_se"
  /\ call.pkt.nals = <<UeCode(Pow2(MaxUeBits) - 1, "ones")>>
  /\ call.ret = Pow2(MaxUeBits - 1)

(* ---------------------------------------------------------------------- *)
(* C20: with a conversion mode of TO_MEL or TO_81, when the conversion of  *)
(* an RPU gives no converted data (dovi_convert_rpu_with_mode returns      *)
(* negative, or the RPU is not one that is converted), the RPU is emitted  *)
(* as it came, Convert goes on and succeeds, and no field of hints.dovi    *)
(* is changed.                                                             *)
(* ---------------------------------------------------------------------- *)
RpuIndices(pkt) ==
  {i \in 1..Len(pkt.nals) : (At(pkt.nals[i], 0) \div 2) % 64 = HEVC_NAL_UNSPEC62}

NotConverted(nal, mode) ==
  \/ ~RpuHasHeader(nal)
  \/ guessed_profile(nal) # 7
  \/ dovi_convert_rpu_with_mode(nal, mode) < 0

(* an HDR10+ SEI of the packet is converted to a Dolby Vision RPU *)
Hdr10PlusConverted(pkt) ==
  /\ m_convert_Hdr10Plus /\ ~m_dual_priority_Hdr10Plus
  /\ m_intial_hdrType # HDR_TYPE_DOLBYVISION \/ m_prefer_Hdr10Plus_conversion
  /\ \E i \in 1..Len(pkt.nals) : pkt.nals[i] = SeiHdr10Plus

(* this step is a single-track Convert of a packet whose RPUs are not      *)
(* converted, by a converter to Annex-B with a conversion mode             *)
ConvertsUnconvertedRpu ==
  /\ call'.op = "Convert" /\ ~call'.pkt.null
  /\ opened /\ m_codec = AV_CODEC_ID_HEVC /\ m_to_annexb /\ m_convert_bitstream
  /\ m_convert_dovi \in {MODE_TOMEL, MODE_TO81}
  /\ RpuIndices(call'.pkt) # {}
  /\ \A i \in RpuIndices(call'.pkt) : NotConverted(call'.pkt.nals[i], m_convert_dovi)

(* the step emits every RPU as it came, succeeds and leaves hints.dovi *)
KeepsRpu ==
  /\ call'.ret /\ ~m_convertBuffer'.null
  /\ \A i \in RpuIndices(call'.pkt) :
        \E k \in DOMAIN m_convertBuffer'.data :
           /\ m_convertBuffer'.data[k].idx = i
           /\ m_convertBuffer'.data[k].nal = call'.pkt.nals[i]
           /\ m_convertBuffer'.data[k].pre = <<>>
  /\ m_hints'.dovi = m_hints.dovi

EmitsSynthesizedRpu ==
  /\ call.op \in {"Convert", "Convert2"} /\ call.ret
  /\ ~m_convertBuffer.null
  /\ \E k \in DOMAIN m_convertBuffer.data : m_convertBuffer.data[k].org = "rpu_synth"

C21_HintsAdvertiseDv ==
  EmitsSynthesizedRpu =>
    /\ m_hints.hdrType = HDR_TYPE_DOLBYVISION
    /\ m_hints.dovi.dv_profile = 8
    /\ m_hints.dovi.rpu_present_flag = 1
    /\ m_hints.dovi.bl_present_flag = 1
    /\ m_hints.dovi.el_present_flag = 0
    /\ m_hints.dovi.dv_bl_signal_compatibility_id = 1

(* ---------------------------------------------------------------------- *)
(* C22: the dual-track Convert emits the NALs of the BL packet in input    *)
(* order, then those of the EL packet, then the synthesized RPU; an end of *)
(* sequence NAL of the BL packet is held back and emitted as the very last *)
(* NAL, and every BL NAL appears exactly once in the output.  Checked here *)
(* on the BL NALs other than SEI prefix NALs, which are rewritten.         *)
(* ---------------------------------------------------------------------- *)
(* a dual-track Convert went through both packets *)
Combined ==
  /\ call.op = "Convert2" /\ call.ret /\ ~call.pkt.null /\ ~call.el.null

EmittedPieces == IF m_convertBuffer.null THEN <<>> ELSE m_convertBuffer.data

(* the positions in the output of the pieces copied from the BL packet     *)
(* that hold nal                                                           *)
BlPiecesOf(nal) ==
  {k \in DOMAIN EmittedPieces :
     EmittedPieces[k].org = "bl" /\ EmittedPieces[k].nal = nal}

BlIndicesOf(nal) == {i \in 1..Len(call.pkt.nals) : call.pkt.nals[i] = nal}

IsEndOfSequence(nal) == HevcType(nal) = HEVC_NAL_EOS_NUT

C22_DualTrackOrder ==
  Combined =>
    \A i \in 1..Len(call.pkt.nals) :
       LET nal == call.pkt.nals[i]
       IN HevcType(nal) # HEVC_NAL_SEI_PREFIX =>
            /\ Cardinality(BlPiecesOf(nal)) = Cardinality(BlIndicesOf(nal))
            /\ IF IsEndOfSequence(nal)
               THEN Len(EmittedPieces) \in BlPiecesOf(nal)
               ELSE \A k \in BlPiecesOf(nal) :
                       \A j \in DOMAIN EmittedPieces :
                          EmittedPieces[j].org \in {"el", "rpu_conv", "rpu_synth"}
                          => k < j

(* ---------------------------------------------------------------------- *)
(* C23: a dual-track Convert whose BL packet holds an SPS or an IDR NAL    *)
(* makes CanStartDecode() true, as the single-track Convert does, so that  *)
(* after ResetStartDecode decoding becomes startable once an IDR access    *)
(* unit has been converted.                                                *)
(* ---------------------------------------------------------------------- *)
HoldsSpsOrIdr(pkt) ==
  \E i \in 1..Len(pkt.nals) :
     HevcType(pkt.nals[i]) \in {HEVC_NAL_SPS, HEVC_NAL_IDR_W_RADL, HEVC_NAL_IDR_N_LP}

C23_DualTrackStartsDecode ==
  (Combined /\ HoldsSpsOrIdr(call.pkt)) => CanStartDecode

(* ---------------------------------------------------------------------- *)
(* C24: an emitted access unit that ends with an RPU synthesized from      *)
(* HDR10+ holds no RPU (type 62) and no EL (type 63) of the input,         *)
(* whatever the order of the SEI prefix, RPU and EL NALs in the packet.    *)
(* ---------------------------------------------------------------------- *)
(* piece k of the output is an RPU or an EL that came from the input *)
SourceRpuOrEl(k) ==
  /\ EmittedPieces[k].org # "rpu_synth"
  /\ \/ EmittedPieces[k].org = "el"
     \/ HevcType(EmittedPieces[k].nal) \in {HEVC_NAL_UNSPEC62, HEVC_NAL_UNSPEC63}

C24_SynthesizedRpuReplaces ==
  EmitsSynthesizedRpu => \A k \in DOMAIN EmittedPieces : ~SourceRpuOrEl(k)


(* ---------------------------------------------------------------------- *)
(* HDR static metadata: packets of SEI prefix NALs with mastering display  *)
(* colour volume and content light level messages                          *)
(* ---------------------------------------------------------------------- *)
MaxHdrNals == 2

HdrPackets == Packets(HdrSeiNals, MaxHdrNals)
HdrBlPackets == DualPackets({SeiCll(1, 2), SeiMdcv(1, 1)}, MaxHdrNals)
HdrElPackets == DualPackets({RpuP7}, 1)

DoConvertHdr == ConvertOver(HdrPackets)

DoConvert2Hdr == Convert2Over(HdrBlPackets, HdrElPackets)

NextHdr == DoOpenAnnexB \/ DoConvertHdr \/ DoConvert2Hdr

SpecHdr == InitDv /\ [][NextHdr]_vars

(* the NALs the call that led to the state ran its NAL loop over: those of *)
(* a single-track conversion to Annex-B, those of the BL packet of a       *)
(* dual-track call                                                         *)
SeiLoopNals ==
  IF call.op = "Convert" /\ ~call.pkt.null /\ m_to_annexb /\ m_convert_bitstream
  THEN call.pkt.nals
  ELSE IF call.op = "Convert2" /\ ~call.pkt.null /\ ~call.el.null /\ m_combine
  THEN DualNals(call.pkt)
  ELSE <<>>

IsSeiPrefix(nal) == HevcType(nal) = HEVC_NAL_SEI_PREFIX

(* the aggregate when each NAL's MDCV and CLL replace the stored ones: the *)
(* stored values are the last observed, the has flags are only raised     *)
ObserveSei(hdr, nal) ==
  LET cv == SeiOf(nal).colourVolume
      ll == SeiOf(nal).lightLevel
  IN [has_mdcv_metadata |-> hdr.has_mdcv_metadata \/ cv.has,
      max_lum |-> IF cv.has THEN cv.maxLuminance ELSE hdr.max_lum,
      min_lum |-> IF cv.has THEN cv.minLuminance ELSE hdr.min_lum,
      has_cll_metadata |-> hdr.has_cll_metadata \/ ll.has,
      max_cll |-> IF ll.has THEN ll.maxContentLightLevel ELSE hdr.max_cll,
      max_fall |-> IF ll.has THEN ll.maxFrameAverageLightLevel ELSE hdr.max_fall]

RECURSIVE ObservedUpTo(_, _, _)
ObservedUpTo(hdr, nals, k) ==
  IF k = 0 THEN hdr
  ELSE LET h == ObservedUpTo(hdr, nals, k - 1)
       IN IF IsSeiPrefix(nals[k]) THEN ObserveSei(h, nals[k]) ELSE h

(* how often the call handed the aggregate to process-info while it        *)
(* processed NAL k                                                         *)
PublishedAt(log, k) == Cardinality({j \in DOMAIN log : log[j].idx = k})

(* ---------------------------------------------------------------------- *)
(* C25: processing an SEI prefix NAL hands the HDR static metadata to      *)
(* process-info exactly once if its MDCV (max_lum, min_lum) or its CLL     *)
(* (max_cll, max_fall) differs from the stored values or is seen for the   *)
(* first time, and not at all if the NAL only repeats the stored values;   *)
(* across the NALs has_mdcv and has_cll only go from false to true and the *)
(* stored values equal the last observed ones.                             *)
(* ---------------------------------------------------------------------- *)
HdrAggregation(hdr, nals, log, after) ==
  /\ \A k \in 1..Len(nals) :
        IsSeiPrefix(nals[k]) =>
          PublishedAt(log, k) =
            (IF ObserveSei(ObservedUpTo(hdr, nals, k - 1), nals[k])
                # ObservedUpTo(hdr, nals, k - 1)
             THEN 1 ELSE 0)
  /\ after = ObservedUpTo(hdr, nals, Len(nals))
  /\ hdr.has_mdcv_metadata => after.has_mdcv_metadata
  /\ hdr.has_cll_metadata => after.has_cll_metadata

C25_HdrStaticMetadata ==
  [][HdrAggregation(m_hdrStaticMetadataInfo, SeiLoopNals', m_dataCacheCore',
                    m_hdrStaticMetadataInfo')]_vars

(* a packet whose first SEI sets the content light level and whose second  *)
(* repeats it                                                              *)
C25_Witness ==
  /\ call.op = "Convert" /\ call.ret
  /\ call.pkt.nals = <<SeiCll(1, 2), SeiCll(1, 2)>>
  /\ PublishedAt(m_dataCacheCore, 1) = 1
  /\ PublishedAt(m_dataCacheCore, 2) = 0
  /\ m_hdrStaticMetadataInfo.has_cll_metadata
  /\ m_hdrStaticMetadataInfo.max_fall = 258


(* ---------------------------------------------------------------------- *)
(* C26: when an avcC record carries an mvcC atom after its PPS list, the   *)
(* prologue built by Open consists of the SPS/PPS taken from the mvcC atom *)
(* and does not also contain the base SPS/PPS read before it.              *)
(* ---------------------------------------------------------------------- *)
(* Open has built the prologue of the avcC record of p, which has an mvcC  *)
(* atom                                                                    *)
OpenedWithMvc(p) ==
  /\ call.op = "Open" /\ call.ret /\ m_codec = AV_CODEC_ID_H264
  /\ p.mvc # <<>>
  /\ MkAvcc(p) = m_hints.extradata

C26_MvcSupersedes ==
  \A p \in AvccParams :
     OpenedWithMvc(p) => GetExtraData = Framed(p.mvc.sps \o p.mvc.pps)

(* the record is more than 14 bytes longer than the prologue of its base   *)
(* SPS/PPS (or shorter than it: the difference is unsigned), so that the   *)
(* reshaper looks for the mvcC signature                                   *)
MvcProbed(p) ==
  LET total_size == TotalSize(p.sps \o p.pps)
  IN Len(MkAvcc(p)) < total_size \/ Len(MkAvcc(p)) - total_size > 14

(* C26 as the code has it: when the reshaper looks for the atom, the       *)
(* prologue holds the base SPS/PPS of the record and behind them the       *)
(* SPS/PPS taken from the mvcC atom.                                       *)
C26_MvcAppended ==
  \A p \in AvccParams :
     OpenedWithMvc(p) /\ MvcProbed(p) =>
       GetExtraData = Framed(p.sps \o p.pps) \o Framed(p.mvc.sps \o p.mvc.pps)

(* a record with one base SPS, one base PPS and an mvcC atom *)
C26_Witness ==
  \E p \in AvccParams :
     /\ OpenedWithMvc(p) /\ MvcProbed(p)
     /\ Len(p.sps) = 1 /\ Len(p.pps) = 1
     /\ Len(GetExtraData) = TotalSize(p.sps \o p.pps) + TotalSize(p.mvc.sps \o p.mvc.pps)


(* ---------------------------------------------------------------------- *)
(* C27: while it builds the prologue from an avcC or hvcC record of        *)
(* in_extrasize bytes, the reshaper never reads a byte at an index >=      *)
(* in_extrasize, for every record content that passes the size and         *)
(* version checks of Open.                                                 *)
(* ---------------------------------------------------------------------- *)
(* Open(to_annexb = true) has handed the record to the reshaper: it        *)
(* returns true exactly where it has                                       *)
OpenReshaped ==
  /\ call.op = "Open" /\ call.ret /\ m_to_annexb
  /\ m_codec \in {AV_CODEC_ID_H264, AV_CODEC_ID_HEVC}

(* the walk of the reshaper over the record of the hints *)
ReshaperWalk ==
  IF m_codec = AV_CODEC_ID_H264 THEN BitstreamConvertInitAVC(m_hints.extradata)
  ELSE BitstreamConvertInitHEVC(m_hints.extradata)

C27_ReadsWithinRecord == OpenReshaped => ~ReshaperWalk.oob


(* ---------------------------------------------------------------------- *)
(* C28: a single Convert call prepends the SPS/PPS prologue to its output  *)
(* at most once, for every packet in both codecs, including packets that   *)
(* hold several IDR slice NALs or several HEVC CRA slice NALs of the same  *)
(* picture.                                                                *)
(* ---------------------------------------------------------------------- *)
(* packets of slice NALs: IDR and non-IDR slices for AVC, CRA and IDR      *)
(* slices for HEVC                                                         *)
MaxSliceNals == 3

SlicePackets ==
  Packets(IF m_codec = AV_CODEC_ID_H264 THEN {AvcIdr, AvcSlice} ELSE {HevcCra, HevcIdr},
          MaxSliceNals)

DoConvertSlices == ConvertOver(SlicePackets)

NextSlices == DoOpenAnnexB \/ DoConvertSlices

SpecSlices == InitIdr /\ [][NextSlices]_vars

(* the pieces of the output that carry the prologue in front of their NAL *)
ProloguePieces ==
  {k \in DOMAIN m_convertBuffer.data : m_convertBuffer.data[k].pre # <<>>}

C28_PrologueOnce ==
  (call.op = "Convert" /\ call.ret /\ m_to_annexb /\ m_convert_bitstream
   /\ ~m_convertBuffer.null)
    => Cardinality(ProloguePieces) <= 1


(* ---------------------------------------------------------------------- *)
(* C29: a single-track Convert that returns false because of a truncated   *)
(* or zero-length NAL leaves the stream state as it was before the call:   *)
(* first_idr, idr_sps_pps_seen, start_decode, first_frame, the HDR static  *)
(* metadata aggregate and the stream hints are unchanged, and nothing from *)
(* the failed packet has been published to process-info.                   *)
(* ---------------------------------------------------------------------- *)
(* the step is a single-track conversion to Annex-B that fails on the cut  *)
(* or empty end of its packet                                              *)
FailsOnTruncatedNal ==
  /\ opened /\ m_to_annexb /\ m_convert_bitstream
  /\ call'.op = "Convert" /\ ~call'.ret /\ ~call'.pkt.null
  /\ call'.pkt.trunc \/ call'.pkt.nals = <<>>

C29_FailedConvertKeepsState ==
  [][FailsOnTruncatedNal =>
       /\ m_sps_pps_context' = m_sps_pps_context
       /\ m_start_decode' = m_start_decode
       /\ m_first_frame' = m_first_frame
       /\ m_hdrStaticMetadataInfo' = m_hdrStaticMetadataInfo
       /\ m_hints' = m_hints
       /\ m_dataCacheCore' = <<>>]_vars


(* ---------------------------------------------------------------------- *)
(* C30: if Open(to_annexb = true) returns true, the prologue was built and *)
(* NeedConvert() is true, so every later successful Convert exposes an     *)
(* Annex-B buffer produced by the converter; Open never reports success    *)
(* while leaving Convert to pass length-prefixed input through unchanged.  *)
(* ---------------------------------------------------------------------- *)
C30_OpenArmsConversion ==
  /\ (call.op = "Open" /\ call.ret /\ m_to_annexb) => NeedConvert
  /\ (call.op = "Convert" /\ call.ret /\ opened /\ m_to_annexb)
       => UsesConvertBuffer /\ m_inputBuffer.null

====
